---- MODULE Spec2Model ----
(***************************************************************************)
(* A model of personal-vault: the vault core (internal/vault/vault.go),    *)
(* the session with its idle auto-lock timer (internal/vault/session.go),  *)
(* the scope grammar (internal/vault/scope.go), the store tables           *)
(* (internal/store) and the HTTP request gate (internal/api).              *)
(*                                                                         *)
(* Text is a sequence of one-character strings, a byte string a sequence   *)
(* of numbers.  Cryptographic primitives are ideal: a hash or a derived    *)
(* key is a record of what it was computed from, so two of them are equal  *)
(* exactly when their inputs are; random 32-byte tokens are fresh.         *)
(***************************************************************************)
EXTENDS Integers, Sequences, FiniteSets, TLC

(***************************************************************************)
(* Bounds of the model.                                                    *)
(***************************************************************************)
MaxSessions == 3
NumProcs == 2
MaxAudit == 3
MaxSvc == 1
TTL == 2
MaxVersion == 2
MaxPending == 1
MaxRequests == 1
TicksPerSecond == 2
MaxNow == 4
MaxTokens == 2
MaxLog == 4
DefaultTokenTTL == 6
UnlockWindow == 2
MaxAttempts == 6
MaxHist == 3
MaxCalls == 5
MaxLen == 3
MaxBurst == 12

(***************************************************************************)
(* Go's strings package, on sequences of characters.                       *)
(***************************************************************************)
Space == {" ", "\n", "\t", "\r"}

HasPrefix(s, prefix) ==
    /\ Len(prefix) <= Len(s)
    /\ SubSeq(s, 1, Len(prefix)) = prefix

HasSuffix(s, suffix) ==
    /\ Len(suffix) <= Len(s)
    /\ SubSeq(s, Len(s) - Len(suffix) + 1, Len(s)) = suffix

TrimSuffix(s, suffix) ==
    IF HasSuffix(s, suffix) THEN SubSeq(s, 1, Len(s) - Len(suffix)) ELSE s

RECURSIVE TrimLeft(_)
TrimLeft(s) ==
    IF s # <<>> /\ Head(s) \in Space THEN TrimLeft(Tail(s)) ELSE s

RECURSIVE TrimRight(_)
TrimRight(s) ==
    IF s # <<>> /\ s[Len(s)] \in Space
    THEN TrimRight(SubSeq(s, 1, Len(s) - 1))
    ELSE s

TrimSpace(s) == TrimRight(TrimLeft(s))

\* Index of the first occurrence of character c in s, 0 when there is none.
RECURSIVE IndexFrom(_, _, _)
IndexFrom(s, c, i) ==
    IF i > Len(s) THEN 0
    ELSE IF s[i] = c THEN i
    ELSE IndexFrom(s, c, i + 1)

Index(s, c) == IndexFrom(s, c, 1)

\* strings.Split(s, sep) for a one-character separator: always at least one part.
RECURSIVE Split(_, _)
Split(s, sep) ==
    LET i == Index(s, sep)
    IN  IF i = 0 THEN <<s>>
        ELSE <<SubSeq(s, 1, i - 1)>> \o Split(SubSeq(s, i + 1, Len(s)), sep)

\* strings.SplitN(s, sep, 2): split on the first separator only.
SplitN2(s, sep) ==
    LET i == Index(s, sep)
    IN  IF i = 0 THEN <<s>>
        ELSE <<SubSeq(s, 1, i - 1), SubSeq(s, i + 1, Len(s))>>

(***************************************************************************)
(* The scope grammar and identifier validation.                            *)
(***************************************************************************)
Letters == {"a", "b", "c", "d", "e", "f", "x", "y", "z", "A", "B", "C", "D", "E", "F"}
Digits == {"0", "1", "2", "3", "4", "5", "6", "7", "8", "9"}

\* The characters validIDPart accepts: [a-zA-Z0-9_-].
IdChars == Letters \cup Digits \cup {"_", "-"}

\* validIDPart.MatchString: ^[a-zA-Z0-9_-]+$
validIDPart(s) == s # <<>> /\ \A i \in 1..Len(s) : s[i] \in IdChars

\* ValidateFieldID returns nil (TRUE here) or an error (FALSE).
ValidateFieldID(id) ==
    LET parts == SplitN2(id, ".")
    IN  /\ Len(parts) = 2
        /\ parts[1] # <<>>
        /\ parts[2] # <<>>
        /\ validIDPart(parts[1])
        /\ validIDPart(parts[2])

ValidCategoryName(name) == name # <<>> /\ validIDPart(name)

\* Variants of the two loop bodies: a category pattern that matches by prefix of the
\* identifier without the separating dot, and a category evaluation that ignores
\* exact-field patterns.
ScopePatternAllowsByPrefix(pat, fieldID) ==
    LET p == TrimSpace(pat)
    IN  IF p = <<"*">> THEN TRUE
        ELSE IF HasSuffix(p, <<".", "*">>)
             THEN HasPrefix(fieldID, TrimSuffix(p, <<".", "*">>))
             ELSE p = fieldID

ScopePatternAllowsCategoryOnly(pat, category) ==
    LET p == TrimSpace(pat)
    IN  IF p = <<"*">> THEN TRUE
        ELSE IF HasSuffix(p, <<".", "*">>)
             THEN TrimSuffix(p, <<".", "*">>) = category
             ELSE FALSE

\* One pattern of ScopeAllows' loop: TRUE when the loop returns true on it.
ScopePatternAllows(pat, fieldID) ==
    LET p == TrimSpace(pat)
    IN  IF p = <<"*">> THEN TRUE
        ELSE IF HasSuffix(p, <<".", "*">>)
             THEN HasPrefix(fieldID, TrimSuffix(p, <<".", "*">>) \o <<".">>)
             ELSE p = fieldID

ScopeAllows(scope, fieldID) ==
    LET ps == Split(scope, ",")
    IN  \E i \in 1..Len(ps) : ScopePatternAllows(ps[i], fieldID)

ScopePatternAllowsCategory(pat, category) ==
    LET p == TrimSpace(pat)
    IN  IF p = <<"*">> THEN TRUE
        ELSE IF HasSuffix(p, <<".", "*">>)
             THEN TrimSuffix(p, <<".", "*">>) = category
             ELSE HasPrefix(p, category \o <<".">>)

ScopeAllowsCategory(scope, category) ==
    LET ps == Split(scope, ",")
    IN  \E i \in 1..Len(ps) : ScopePatternAllowsCategory(ps[i], category)

(***************************************************************************)
(* encoding/hex and the primitives of internal/crypto.                     *)
(***************************************************************************)
HexVal(c) ==
    CASE c = "0" -> 0 [] c = "1" -> 1 [] c = "2" -> 2 [] c = "3" -> 3
      [] c = "4" -> 4 [] c = "5" -> 5 [] c = "6" -> 6 [] c = "7" -> 7
      [] c = "8" -> 8 [] c = "9" -> 9
      [] c \in {"a", "A"} -> 10 [] c \in {"b", "B"} -> 11
      [] c \in {"c", "C"} -> 12 [] c \in {"d", "D"} -> 13
      [] c \in {"e", "E"} -> 14 [] c \in {"f", "F"} -> 15
      [] OTHER -> -1

\* hex.DecodeString: the bytes, or an error for an odd length or a non-hex character.
RECURSIVE HexBytes(_)
HexBytes(s) ==
    IF s = <<>> THEN <<>>
    ELSE <<16 * HexVal(s[1]) + HexVal(s[2])>> \o HexBytes(SubSeq(s, 3, Len(s)))

HexDecodeString(s) ==
    IF Len(s) % 2 = 1 \/ \E i \in 1..Len(s) : HexVal(s[i]) < 0
    THEN [err |-> TRUE, bytes |-> <<>>]
    ELSE [err |-> FALSE, bytes |-> HexBytes(s)]

HexDigit(n) ==
    CASE n = 0 -> "0" [] n = 1 -> "1" [] n = 2 -> "2" [] n = 3 -> "3"
      [] n = 4 -> "4" [] n = 5 -> "5" [] n = 6 -> "6" [] n = 7 -> "7"
      [] n = 8 -> "8" [] n = 9 -> "9" [] n = 10 -> "a" [] n = 11 -> "b"
      [] n = 12 -> "c" [] n = 13 -> "d" [] n = 14 -> "e" [] n = 15 -> "f"

\* hex.EncodeToString: lower-case digits, two per byte.
RECURSIVE HexEncodeToString(_)
HexEncodeToString(b) ==
    IF b = <<>> THEN <<>>
    ELSE <<HexDigit(b[1] \div 16), HexDigit(b[1] % 16)>> \o HexEncodeToString(Tail(b))

\* crypto.HashSecretKey followed by hex.EncodeToString: an ideal hash, named by its input.
HashSecretKeyHex(secretKey) == [sha256 |-> secretKey]

\* crypto.DeriveVaultKey: Argon2id over password || secretKey with the salt.
DeriveVaultKey(password, secretKey, salt) ==
    [argon2id |-> password \o secretKey, salt |-> salt]

\* crypto.DeriveSubkey: HKDF-SHA256(ikm = vaultKey, salt, info = category).
DeriveSubkey(vaultKey, salt, category) ==
    [hkdf |-> vaultKey, salt |-> salt, info |-> category]

\* crypto.EncryptToBase64: an ideal AEAD; the envelope opens under its key only.
EncryptToBase64(key, plaintext) == [sealedWith |-> key, plaintext |-> plaintext]

\* A cipher that opens an envelope under any key.
DecryptUnderAnyKey(key, encoded) ==
    [err |-> FALSE, plaintext |-> encoded.plaintext]

\* crypto.DecryptFromBase64: the plaintext, or an error under another key.
DecryptFromBase64(key, encoded) ==
    IF encoded.sealedWith = key
    THEN [err |-> FALSE, plaintext |-> encoded.plaintext]
    ELSE [err |-> TRUE, plaintext |-> <<>>]

\* A nil key slice, and a zero-filled key buffer.
NilKey == [nil |-> TRUE]
Zero == [zero |-> TRUE]

verifyPlaintext == "personal-vault-verification"

(***************************************************************************)
(* vault.Init: the metadata a new vault is left with.  The password, the   *)
(* device secret key and the salt of the modelled vault:                   *)
(***************************************************************************)
InitPassword == <<112, 119>>
InitSecretKey == <<171, 1>>
InitSalt == <<7>>

InitMeta(password, sk, salt) ==
    [salt            |-> salt,
     secret_key_hash |-> HashSecretKeyHex(sk),
     verification    |-> EncryptToBase64(DeriveVaultKey(password, sk, salt), verifyPlaintext)]

\* What Init writes to secret.key and returns: the secret key in hex.
InitSecretKeyHex == HexEncodeToString(InitSecretKey)

\* The directory vault.Init leaves: vault.db, and secret.key holding the key in hex
\* and a newline.
InitDir(sk) == [db |-> TRUE, secretKey |-> HexEncodeToString(sk) \o <<"\n">>]

\* A directory without a database, and the vault_meta of a database without rows.
NoDir == [db |-> FALSE, secretKey |-> <<>>]
NoMeta == [salt |-> <<>>, secret_key_hash |-> HashSecretKeyHex(<<>>),
           verification |-> EncryptToBase64(Zero, "")]

(***************************************************************************)
(* Errors of the vault core and what the HTTP surface makes of them.       *)
(***************************************************************************)
ErrNone == "ok"
ErrLocked == "vault is locked"
ErrAlreadyUnlocked == "vault is already unlocked"
ErrNotInitialized == "vault is not initialized"
ErrWrongPassword == "wrong password or secret key"
ErrInvalidTier == "invalid sensitivity tier"
ErrInvalidID == "invalid field id"
ErrDecodeSecretKey == "decode secret key"
ErrDecrypt == "decrypt"

ErrAlreadyInit == "vault is already initialized"

\* An Init that writes the directory anew whether or not vault.db exists.
VaultInitOver(st, password, sk, salt) ==
    [st |-> [st EXCEPT !.dir = InitDir(sk), !.meta = InitMeta(password, sk, salt)],
     err |-> ErrNone, secretKey |-> HexEncodeToString(sk)]

\* vault.Init with the salt and the secret key it generates: it refuses when vault.db
\* exists, else writes the three rows of vault_meta and secret.key, and returns the
\* secret key in hex.
VaultInit(st, password, sk, salt) ==
    IF st.dir.db THEN [st |-> st, err |-> ErrAlreadyInit, secretKey |-> <<>>]
    ELSE [st |-> [st EXCEPT !.dir = InitDir(sk), !.meta = InitMeta(password, sk, salt)],
          err |-> ErrNone, secretKey |-> HexEncodeToString(sk)]

validTiers == {"public", "standard", "sensitive", "critical"}

(***************************************************************************)
(* Time.  The clock counts ticks, TicksPerSecond of them to the second.    *)
(* The store writes a time with Format(time.RFC3339), which keeps whole    *)
(* seconds, and reads it back with time.Parse.                             *)
(***************************************************************************)
FormatRFC3339(t) == t \div TicksPerSecond

ParseRFC3339(text) == text * TicksPerSecond

\* t.After(u)
After(t, u) == t > u

(***************************************************************************)
(* The store (internal/store): the vault_fields, vault_tokens and          *)
(* vault_access_log tables.  A table is a function from its primary key.   *)
(***************************************************************************)
\* The characters of the model in byte order, for ORDER BY.
ByteOrder ==
    <<"\t", "\n", "\r", " ", "*", ",", "-", ".",
      "0", "1", "2", "3", "4", "5", "6", "7", "8", "9",
      "A", "B", "C", "D", "E", "F", "_",
      "a", "b", "c", "d", "e", "f", "x", "y", "z">>

RECURSIVE TextLess(_, _)
TextLess(s, t) ==
    IF t = <<>> THEN FALSE
    ELSE IF s = <<>> THEN TRUE
    ELSE IF s[1] = t[1] THEN TextLess(Tail(s), Tail(t))
    ELSE Index(ByteOrder, s[1]) < Index(ByteOrder, t[1])

\* The rows of a field table in the order of ORDER BY category, field_name.
FieldRowLess(f, g) ==
    \/ TextLess(f.category, g.category)
    \/ f.category = g.category /\ TextLess(f.field_name, g.field_name)

RECURSIVE OrderedRows(_)
OrderedRows(rows) ==
    IF rows = {} THEN <<>>
    ELSE LET first == CHOOSE f \in rows : \A g \in rows \ {f} : FieldRowLess(f, g)
         IN  <<first>> \o OrderedRows(rows \ {first})

Rows(fields) == {fields[id] : id \in DOMAIN fields}

\* An insert that replaces an existing row: the version starts again at 1.
SetFieldReplace(fields, f) ==
    [id \in DOMAIN fields \cup {f.id} |-> IF id = f.id THEN [f EXCEPT !.version = 1] ELSE fields[id]]

\* An insert that leaves an existing row as it is.
SetFieldInsertOnly(fields, f) ==
    IF f.id \in DOMAIN fields THEN fields
    ELSE [id \in DOMAIN fields \cup {f.id} |->
            IF id = f.id THEN [f EXCEPT !.version = 1] ELSE fields[id]]

\* store.SetField: insert with version 1, or update and bump the version.
SetField(fields, f) ==
    IF f.id \in DOMAIN fields
    THEN [fields EXCEPT ![f.id] =
            [@ EXCEPT !.value = f.value,
                      !.sensitivity = IF f.sensitivity # "" THEN f.sensitivity ELSE @,
                      !.version = @ + 1]]
    ELSE [id \in DOMAIN fields \cup {f.id} |->
            IF id = f.id THEN [f EXCEPT !.version = 1] ELSE fields[id]]

\* store.GetField: the row, or no row.
HasField(fields, id) == id \in DOMAIN fields

\* store.ListFields and ListFieldsByCategory select no value column.
Metadata(f) == [f EXCEPT !.value = [sealedWith |-> NilKey, plaintext |-> ""]]

ListFields(fields) == OrderedRows({Metadata(f) : f \in Rows(fields)})

ListFieldsByCategory(fields, category) ==
    OrderedRows({Metadata(f) : f \in {g \in Rows(fields) : g.category = category}})

GetFieldsByCategory(fields, category) ==
    OrderedRows({g \in Rows(fields) : g.category = category})

GetAllFields(fields) == OrderedRows(Rows(fields))

DeleteField(fields, id) == [i \in DOMAIN fields \ {id} |-> fields[i]]

\* store.SetSensitivity: an UPDATE, which changes nothing when there is no such row.
StoreSetSensitivity(fields, id, tier) ==
    IF id \in DOMAIN fields
    THEN [fields EXCEPT ![id] = [@ EXCEPT !.sensitivity = tier]]
    ELSE fields

\* A hashServiceToken that leaves the token as it is.
rawServiceToken(token) == token

\* vault.hashServiceToken: hex SHA-256 of the raw token, an ideal hash.
hashServiceToken(token) == [sha256 |-> token]

\* store.CreateToken
CreateToken(tokens, t) ==
    [h \in DOMAIN tokens \cup {t.token} |-> IF h = t.token THEN t ELSE tokens[h]]

\* A GetToken that does not look at the expiry time.
GetTokenUnexpiring(tokens, hash, now) ==
    IF hash \in DOMAIN tokens
    THEN [found |-> TRUE, row |-> tokens[hash]]
    ELSE [found |-> FALSE, row |-> [token |-> hash, consumer |-> "", scope |-> <<>>,
                                    usage |-> "", expires_at |-> 0, created_at |-> 0]]

\* store.GetToken: the row if it exists and has not expired.
GetToken(tokens, hash, now) ==
    IF hash \in DOMAIN tokens /\ ~After(now, ParseRFC3339(tokens[hash].expires_at))
    THEN [found |-> TRUE, row |-> tokens[hash]]
    ELSE [found |-> FALSE, row |-> [token |-> hash, consumer |-> "", scope |-> <<>>,
                                    usage |-> "", expires_at |-> 0, created_at |-> 0]]

\* store.DeleteToken: the table without the row, and the number of rows deleted.
DeleteToken(tokens, hash) ==
    [tokens |-> [h \in DOMAIN tokens \ {hash} |-> tokens[h]],
     n      |-> IF hash \in DOMAIN tokens THEN 1 ELSE 0]

ListTokensByUsage(tokens, usage) == {tokens[h] : h \in {g \in DOMAIN tokens : tokens[g].usage = usage}}

\* store.LogAccess appends a row, stamped with the time in whole seconds; the vault
\* ignores its error.  A row's place in the table is its rowid.
AuditEntry(consumer, scope, action) ==
    [consumer |-> consumer, scope |-> scope, action |-> action, purpose |-> "",
     created_at |-> 0]

LogAccess(audit, entry, now) ==
    Append(audit, [entry EXCEPT !.created_at = FormatRFC3339(now)])

\* The rows of the log as the descending scan of idx_access_log_created yields them:
\* by created_at, and by rowid among the rows of one second, both descending.
RECURSIVE NewestFirst(_, _)
NewestFirst(log, rowids) ==
    IF rowids = {} THEN <<>>
    ELSE LET i == CHOOSE r \in rowids : \A j \in rowids \ {r} :
                     \/ log[j].created_at < log[r].created_at
                     \/ log[j].created_at = log[r].created_at /\ j < r
         IN  <<log[i]>> \o NewestFirst(log, rowids \ {i})

\* store.GetAuditLog: ORDER BY created_at DESC LIMIT limit.
GetAuditLog(log, limit) ==
    LET all == NewestFirst(log, DOMAIN log)
    IN  SubSeq(all, 1, IF limit < Len(all) THEN limit ELSE Len(all))

(***************************************************************************)
(* The session (internal/vault/session.go).  A session record holds the    *)
(* fields of the Go struct and the runtime timer time.AfterFunc created:   *)
(*   token      the session token, EmptyToken once cleared                 *)
(*   hasKey     s.vaultKey # nil                                           *)
(*   buf        the contents of the key buffer NewSession allocated        *)
(*   timer      s.timer # nil                                              *)
(*   armed      the runtime timer is pending                               *)
(*   remaining  ticks until the pending timer expires                      *)
(*   firing     autoLock goroutines the timer started, not yet in s.mu     *)
(*   locking    autoLock goroutines past s.mu, about to call lockFn        *)
(*   waiting    autoLock goroutines blocked in lockFn's v.mu.Lock()        *)
(*   idle       ticks since the session was created or last touched        *)
(***************************************************************************)
EmptyToken == [kind |-> "", n |-> 0]
SessionToken(n) == [kind |-> "session", n |-> n]
ServiceToken(n) == [kind |-> "service", n |-> n]
GarbageToken == [kind |-> "garbage", n |-> 0]

\* What the documentation has a caller pass to revoke service token n: the first
\* characters of the token, or the first eight characters of its hash as the token
\* list shows them.  Neither is the token, and SHA-256 maps neither to its hash.
TokenPrefix(n) == [kind |-> "prefix of service", n |-> n]
ListedPrefix(n) == [kind |-> "prefix of hash", n |-> n]

NoSession ==
    [created |-> FALSE, token |-> EmptyToken, hasKey |-> FALSE, buf |-> Zero,
     timer |-> FALSE, armed |-> FALSE, remaining |-> 0, firing |-> 0, locking |-> 0,
     waiting |-> 0, idle |-> 0]

\* NewSession: a fresh token, a copy of the key, the idle timer armed at the TTL.
NewSession(vaultKey, n) ==
    [created |-> TRUE, token |-> SessionToken(n), hasKey |-> TRUE, buf |-> vaultKey,
     timer |-> TRUE, armed |-> TRUE, remaining |-> TTL, firing |-> 0, locking |-> 0,
     waiting |-> 0, idle |-> 0]

\* Session.VaultKey: a copy of the key, nil once the session is destroyed.
SessionVaultKey(se) == IF ~se.hasKey THEN NilKey ELSE se.buf

\* NewSession draws 32 random bytes and hex-encodes them: the bytes of the n-th draw
\* (two draws differ) and the text of the token.
tokenBytes(n) == [i \in 1..32 |-> n]
SessionTokenText(n) == HexEncodeToString(tokenBytes(n))

\* A comparison that accepts the token of any session.
SessionValidateAnyToken(se, token) == se.token # EmptyToken /\ token.kind = "session"

\* Session.ValidateToken
SessionValidateToken(se, token) == se.token # EmptyToken /\ se.token = token

\* Session.Touch: timer.Reset re-arms the runtime timer whether or not it has fired.
SessionTouch(se) ==
    IF se.timer
    THEN [se EXCEPT !.armed = TRUE, !.remaining = TTL, !.idle = 0]
    ELSE [se EXCEPT !.idle = 0]

\* A zeroKey that drops the slice and leaves the bytes of the buffer as they were.
zeroKeyKeepsBytes(se) ==
    [se EXCEPT !.hasKey = FALSE]

\* Session.zeroKey: zero the buffer the slice refers to, then drop the slice.
zeroKey(se) ==
    [se EXCEPT !.buf = IF se.hasKey THEN Zero ELSE @, !.hasKey = FALSE]

\* Session.Destroy
SessionDestroy(se) ==
    LET z == [zeroKey(se) EXCEPT !.token = EmptyToken, !.idle = 0]
    IN  IF z.timer THEN [z EXCEPT !.armed = FALSE, !.remaining = 0, !.timer = FALSE] ELSE z

\* Session.autoLock up to s.mu.Unlock(): the runtime timer is not stopped.
autoLockCritical(se) ==
    [[zeroKey(se) EXCEPT !.token = EmptyToken, !.idle = 0] EXCEPT
        !.timer = FALSE, !.firing = @ - 1, !.locking = @ + 1]

(***************************************************************************)
(* The vault core (internal/vault/vault.go).  The state of the program is  *)
(* a record st; an operation is an operator from a state (and arguments)   *)
(* to the state it leaves and what it returns.                             *)
(*   vsession  v.session: 0 for nil, else the number of the session        *)
(*   vsalt     v.salt                                                      *)
(*   sess      every session ever created, by number                       *)
(*   nsess     sessions created so far                                     *)
(*   meta, fields, tokens, audit   the tables of the database              *)
(*   nsvc      service tokens generated so far                             *)
(***************************************************************************)
Sessions == 1..MaxSessions

\* Vault.Unlock past its first check: the metadata, the secret key, the verification
\* ciphertext, and the new session.  local is what the buffer of the local vaultKey
\* holds when Unlock returns: nil when no key was derived, zeros once the loop that
\* zeroes it has run, else the derived key.
unlockWithCredentials(st, password, secretKeyHex) ==
    IF st.meta.salt = <<>> THEN [st |-> st, err |-> ErrNotInitialized, token |-> EmptyToken, local |-> NilKey]
    ELSE
      LET salt == st.meta.salt
          sk == HexDecodeString(TrimSpace(secretKeyHex))
      IN
      IF sk.err THEN [st |-> st, err |-> ErrDecodeSecretKey, token |-> EmptyToken, local |-> NilKey]
      ELSE IF st.meta.secret_key_hash # HashSecretKeyHex(sk.bytes)
      THEN [st |-> st, err |-> ErrWrongPassword, token |-> EmptyToken, local |-> NilKey]
      ELSE
        LET vaultKey == DeriveVaultKey(password, sk.bytes, salt)
            plain == DecryptFromBase64(vaultKey, st.meta.verification)
        IN
        IF plain.err \/ plain.plaintext # verifyPlaintext
        THEN [st |-> st, err |-> ErrWrongPassword, token |-> EmptyToken, local |-> vaultKey]
        ELSE
          LET n == st.nsess + 1
              session == NewSession(vaultKey, n)
          IN  [st |-> [st EXCEPT !.vsalt = salt,
                                 !.sess[n] = session,
                                 !.nsess = n,
                                 !.vsession = n,
                                 !.audit = LogAccess(@, AuditEntry("vault", <<"*">>, "unlock"), st.now)],
               err |-> ErrNone,
               token |-> session.token,
               local |-> Zero]

\* An Unlock that does not look at v.session first.
UnlockOverSession(st, password, secretKeyHex) ==
    unlockWithCredentials(st, password, secretKeyHex)

\* An Unlock that answers a secret key of the wrong hash with an error of its own.
UnlockTellsCause(st, password, secretKeyHex) ==
    LET r == unlockWithCredentials(st, password, secretKeyHex)
        sk == HexDecodeString(TrimSpace(secretKeyHex))
    IN  IF st.vsession # 0
        THEN [st |-> st, err |-> ErrAlreadyUnlocked, token |-> EmptyToken, local |-> NilKey]
        ELSE IF r.err = ErrWrongPassword /\ st.meta.secret_key_hash # HashSecretKeyHex(sk.bytes)
        THEN [r EXCEPT !.err = ErrDecodeSecretKey]
        ELSE r

\* Vault.Unlock, run under v.mu.Lock().
Unlock(st, password, secretKeyHex) ==
    IF st.vsession # 0
    THEN [st |-> st, err |-> ErrAlreadyUnlocked, token |-> EmptyToken, local |-> NilKey]
    ELSE unlockWithCredentials(st, password, secretKeyHex)

\* Vault.Lock, run under v.mu.Lock().
Lock(st) ==
    IF st.vsession # 0
    THEN [st EXCEPT !.audit = LogAccess(@, AuditEntry("vault", <<"*">>, "lock"), st.now),
                    !.sess[st.vsession] = SessionDestroy(@),
                    !.vsession = 0]
    ELSE st

\* Vault.Status: the Locked flag.
StatusLocked(st) == st.vsession = 0

\* Vault.ValidateToken
ValidateToken(st, token) ==
    st.vsession # 0 /\ SessionValidateToken(st.sess[st.vsession], token)

\* Vault.TouchSession
TouchSession(st) ==
    IF st.vsession # 0 THEN [st EXCEPT !.sess[st.vsession] = SessionTouch(@)] ELSE st

\* A validation of service tokens that needs a session.
ValidateServiceTokenUnlockedOnly(st, token) ==
    LET t == GetToken(st.tokens, hashServiceToken(token), st.now)
    IN  IF st.vsession # 0 /\ t.found /\ t.row.usage = "service" THEN t
        ELSE [t EXCEPT !.found = FALSE]

\* Vault.ValidateServiceToken
ValidateServiceToken(st, token) ==
    LET t == GetToken(st.tokens, hashServiceToken(token), st.now)
    IN  IF t.found /\ t.row.usage = "service" THEN t ELSE [t EXCEPT !.found = FALSE]

\* A lock callback that leaves v.session as it is.
lockFnKeepsSession(st) ==
    st

\* The lock callback Unlock hands to NewSession: v.session = nil, whatever it holds.
lockFn(st) == [st EXCEPT !.vsession = 0]

\* A requireUnlocked that answers a nil session with another sentinel error.
requireUnlockedOtherError(st) ==
    IF st.vsession = 0
    THEN [st |-> st, err |-> ErrNotInitialized]
    ELSE [st |-> [st EXCEPT !.sess[st.vsession] = SessionTouch(@)], err |-> ErrNone]

\* Vault.requireUnlocked, first half: the nil check and Touch, under v.mu.RLock().
requireUnlockedTouch(st) ==
    IF st.vsession = 0
    THEN [st |-> st, err |-> ErrLocked]
    ELSE [st |-> [st EXCEPT !.sess[st.vsession] = SessionTouch(@)], err |-> ErrNone]

\* Vault.requireUnlocked, second half: VaultKey and the nil check of the copy.
requireUnlockedKey(st) ==
    LET key == SessionVaultKey(st.sess[st.vsession])
    IN  IF key = NilKey THEN [key |-> NilKey, err |-> ErrLocked]
        ELSE [key |-> key, err |-> ErrNone]

(***************************************************************************)
(* The privileged operations of the vault core, after requireUnlocked has  *)
(* returned a key.  Each returns the state it leaves and a result          *)
(*   [err, rows, bundle, token, n, tokens, entries, locked, keys].         *)
(***************************************************************************)
NoBundle == [c \in {} |-> <<>>]

Result(err) ==
    [err |-> err, rows |-> <<>>, bundle |-> NoBundle, token |-> EmptyToken, n |-> 0,
     tokens |-> {}, entries |-> <<>>, locked |-> FALSE, keys |-> {}, local |-> NilKey]

Category(id) == SplitN2(id, ".")[1]
FieldName(id) == SplitN2(id, ".")[2]

\* A decrypted FieldInfo of a stored row; list operations leave Value empty.
FieldInfo(f, value) ==
    [id |-> f.id, category |-> f.category, field_name |-> f.field_name,
     value |-> value, sensitivity |-> f.sensitivity, version |-> f.version]

\* A Set that writes the row before it looks at the tier.
SetWithKeyWriteFirst(st, vaultKey, id, value, sensitivity) ==
    LET subkey == DeriveSubkey(vaultKey, st.vsalt, Category(id))
        encrypted == EncryptToBase64(subkey, value)
        tier == IF sensitivity = "" THEN "standard" ELSE sensitivity
        written == [st EXCEPT
                      !.fields = SetField(@, [id |-> id, category |-> Category(id),
                                              field_name |-> FieldName(id),
                                              value |-> encrypted,
                                              sensitivity |-> tier, version |-> 0]),
                      !.audit = LogAccess(@, AuditEntry("vault", id, "write"), st.now)]
    IN  [st |-> written,
         res |-> Result(IF tier \notin validTiers THEN ErrInvalidTier ELSE ErrNone)]

\* Vault.Set after ValidateFieldID and requireUnlocked.
SetWithKey(st, vaultKey, id, value, sensitivity) ==
    LET subkey == DeriveSubkey(vaultKey, st.vsalt, Category(id))
        encrypted == EncryptToBase64(subkey, value)
        tier == IF sensitivity = "" THEN "standard" ELSE sensitivity
    IN  IF tier \notin validTiers THEN [st |-> st, res |-> Result(ErrInvalidTier)]
        ELSE [st |-> [st EXCEPT
                        !.fields = SetField(@, [id |-> id, category |-> Category(id),
                                                field_name |-> FieldName(id),
                                                value |-> encrypted,
                                                sensitivity |-> tier, version |-> 0]),
                        !.audit = LogAccess(@, AuditEntry("vault", id, "write"), st.now)],
              res |-> Result(ErrNone)]

\* Vault.Get after requireUnlocked: no row is (nil, nil).
GetWithKey(st, vaultKey, id) ==
    IF ~HasField(st.fields, id) THEN [st |-> st, res |-> Result(ErrNone)]
    ELSE
      LET f == st.fields[id]
          plain == DecryptFromBase64(DeriveSubkey(vaultKey, st.vsalt, f.category), f.value)
      IN  IF plain.err THEN [st |-> st, res |-> Result(ErrDecrypt)]
          ELSE [st |-> [st EXCEPT !.audit = LogAccess(@, AuditEntry("vault", id, "read"), st.now)],
                res |-> [Result(ErrNone) EXCEPT !.rows = <<FieldInfo(f, plain.plaintext)>>]]

\* Vault.List after requireUnlocked.
ListUnlocked(st) ==
    LET fs == ListFields(st.fields)
    IN  [st |-> st,
         res |-> [Result(ErrNone) EXCEPT !.rows = [i \in 1..Len(fs) |-> FieldInfo(fs[i], "")]]]

\* Vault.ListByCategory after requireUnlocked.
ListByCategoryUnlocked(st, category) ==
    LET fs == ListFieldsByCategory(st.fields, category)
    IN  [st |-> st,
         res |-> [Result(ErrNone) EXCEPT !.rows = [i \in 1..Len(fs) |-> FieldInfo(fs[i], "")]]]

\* Vault.GetByCategory after requireUnlocked.
GetByCategoryWithKey(st, vaultKey, category) ==
    LET fs == GetFieldsByCategory(st.fields, category)
        subkey == DeriveSubkey(vaultKey, st.vsalt, category)
        plain(i) == DecryptFromBase64(subkey, fs[i].value)
    IN  IF \E i \in 1..Len(fs) : plain(i).err THEN [st |-> st, res |-> Result(ErrDecrypt)]
        ELSE [st |-> [st EXCEPT !.audit =
                        LogAccess(@, AuditEntry("vault", category \o <<".", "*">>, "read"), st.now)],
              res |-> [Result(ErrNone) EXCEPT
                        !.rows = [i \in 1..Len(fs) |-> FieldInfo(fs[i], plain(i).plaintext)]]]

\* Vault.GetContext after requireUnlocked: the decrypted fields grouped by category.
GetContextWithKey(st, vaultKey) ==
    LET fs == GetAllFields(st.fields)
        plain(i) == DecryptFromBase64(DeriveSubkey(vaultKey, st.vsalt, fs[i].category), fs[i].value)
        cats == {fs[i].category : i \in 1..Len(fs)}
        infos == [i \in 1..Len(fs) |-> FieldInfo(fs[i], plain(i).plaintext)]
    IN  IF \E i \in 1..Len(fs) : plain(i).err THEN [st |-> st, res |-> Result(ErrDecrypt)]
        ELSE [st |-> [st EXCEPT !.audit = LogAccess(@, AuditEntry("vault", <<"*">>, "context"), st.now)],
              res |-> [Result(ErrNone) EXCEPT
                        !.bundle = [c \in cats |-> SelectSeq(infos, LAMBDA f : f.category = c)]]]

\* Vault.Delete after requireUnlocked.
DeleteUnlocked(st, id) ==
    [st |-> [st EXCEPT !.fields = DeleteField(@, id),
                       !.audit = LogAccess(@, AuditEntry("vault", id, "delete"), st.now)],
     res |-> Result(ErrNone)]

\* Vault.SetSensitivity after requireUnlocked.
SetSensitivityUnlocked(st, id, tier) ==
    IF tier \notin validTiers THEN [st |-> st, res |-> Result(ErrInvalidTier)]
    ELSE [st |-> [st EXCEPT !.fields = StoreSetSensitivity(@, id, tier)],
          res |-> Result(ErrNone)]

\* Vault.CreateServiceToken after requireUnlocked: only the hash is stored.
CreateServiceTokenUnlocked(st, consumer, scope, ttl) ==
    LET tokenStr == ServiceToken(st.nsvc + 1)
        t == [token |-> hashServiceToken(tokenStr), consumer |-> consumer, scope |-> scope,
              usage |-> "service", expires_at |-> FormatRFC3339(st.now + ttl),
              created_at |-> FormatRFC3339(st.now)]
    IN  [st |-> [st EXCEPT !.tokens = CreateToken(@, t),
                           !.nsvc = @ + 1,
                           !.audit = LogAccess(@, [AuditEntry("vault", scope, "create_service_token")
                                                      EXCEPT !.purpose = consumer], st.now)],
         res |-> [Result(ErrNone) EXCEPT !.token = tokenStr]]

\* Vault.ListServiceTokens after requireUnlocked.
ListServiceTokensUnlocked(st) ==
    [st |-> st, res |-> [Result(ErrNone) EXCEPT !.tokens = ListTokensByUsage(st.tokens, "service")]]

\* Vault.RevokeServiceToken after requireUnlocked.
RevokeServiceTokenUnlocked(st, token) ==
    LET d == DeleteToken(st.tokens, hashServiceToken(token))
    IN  [st |-> [st EXCEPT !.tokens = d.tokens,
                           !.audit = IF d.n > 0
                                     THEN LogAccess(@, AuditEntry("vault", <<"*">>, "revoke_service_token"), st.now)
                                     ELSE @],
         res |-> [Result(ErrNone) EXCEPT !.n = d.n]]

(***************************************************************************)
(* The state of the program.                                               *)
(***************************************************************************)
VARIABLES
    vsession,   \* v.session: 0 for nil, else the number of the session
    vsalt,      \* v.salt
    sess,       \* the sessions created so far, by number
    nsess,      \* how many sessions were created
    meta,       \* vault_meta
    dir,        \* the vault directory: is there a vault.db, and the text of secret.key
    fields,     \* vault_fields
    tokens,     \* vault_tokens
    nsvc,       \* how many service tokens were generated
    audit,      \* vault_access_log, rows appended since the database was opened
    pc,         \* where each request handler (goroutine) stands
    loc,        \* its local variables
    resp,       \* the response the last step wrote, if it completed a call
    served,     \* the calls the sequential client has had served
    now,        \* the clock, in ticks
    unlockLimit,\* s.unlockLimit.attempts: the times of the unlock attempts let through
    hist        \* the responses the clients have taken, oldest first

vars == <<vsession, vsalt, sess, nsess, meta, dir, fields, tokens, nsvc, audit, pc, loc, resp, served,
          now, unlockLimit, hist>>

Procs == 1..NumProcs

St ==
    [vsession |-> vsession, vsalt |-> vsalt, sess |-> sess, nsess |-> nsess, meta |-> meta,
     dir |-> dir,
     fields |-> fields, tokens |-> tokens, nsvc |-> nsvc, audit |-> audit, now |-> now]

Commit(s) ==
    /\ vsession' = s.vsession
    /\ vsalt' = s.vsalt
    /\ sess' = s.sess
    /\ nsess' = s.nsess
    /\ meta' = s.meta
    /\ dir' = s.dir
    /\ fields' = s.fields
    /\ tokens' = s.tokens
    /\ nsvc' = s.nsvc
    /\ audit' = s.audit
    /\ now' = s.now

\* The handlers that hold v.mu.RLock(): those between the halves of requireUnlocked.
Readers == {p \in Procs : pc[p] = "key"}

\* A goroutine is blocked in v.mu.Lock(): until it has had the lock, RLock() blocks.
WriterWaiting == \E s \in Sessions : sess[s].waiting > 0

\* What the model passes to the operations.
Passwords == {InitPassword, <<112>>}
SecretKeyInputs ==
    {InitSecretKeyHex,                      \* as Init printed it
     <<" ", "A", "B", "0", "1", "\n">>,     \* the same bytes, upper case, with white space
     <<"a", "b", "0", "2">>,                \* another key
     <<"z", "z", "0", "1">>,                \* not hexadecimal
     <<"a", "b", "0">>}                     \* odd length
idAX == <<"a", ".", "x">>
idAY == <<"a", ".", "y">>
idBX == <<"b", ".", "x">>
Star == <<"*">>
Values == {"v1", "v2"}

\* The ttl of a request to create a service token: absent, a duration in ticks, or a
\* text time.ParseDuration refuses.
NoTTL == [set |-> FALSE, ok |-> TRUE, d |-> 0]
TTLOf(d) == [set |-> TRUE, ok |-> TRUE, d |-> d]
BadTTL == [set |-> TRUE, ok |-> FALSE, d |-> 0]

PrivilegedOps ==
    {"Get", "List", "ListByCategory", "GetByCategory", "GetContext", "Delete",
     "SetSensitivity", "CreateServiceToken", "ListServiceTokens", "RevokeServiceToken", "Set"}

\* A stored field as Set writes it under the vault's key.
Sealed(id, value, tier, version) ==
    [id |-> id, category |-> Category(id), field_name |-> FieldName(id),
     value |-> EncryptToBase64(
                  DeriveSubkey(DeriveVaultKey(InitPassword, InitSecretKey, InitSalt),
                               InitSalt, Category(id)), value),
     sensitivity |-> tier, version |-> version]

(***************************************************************************)
(* The HTTP surface (internal/api).  A call is a route of the protected    *)
(* mux, or the name of a core method for a caller that uses the package    *)
(* directly (the tests, the shutdown path).  The arguments of a call are a *)
(* record rq = [id, category, value, tier, consumer, scope, token].        *)
(***************************************************************************)
Routes ==
    {"POST /vault/lock", "GET /vault/fields", "GET /vault/fields/category/{category}",
     "GET /vault/fields/{id}", "PUT /vault/fields/{id}", "DELETE /vault/fields/{id}",
     "GET /vault/context", "GET /vault/audit", "PUT /vault/sensitivity/{id}",
     "POST /vault/tokens/service", "GET /vault/tokens/service",
     "DELETE /vault/tokens/service/{token}"}

\* The core method a route's handler calls.
RouteOp(route) ==
    CASE route = "POST /vault/lock" -> "Lock"
      [] route = "GET /vault/fields" -> "List"
      [] route = "GET /vault/fields/category/{category}" -> "GetByCategory"
      [] route = "GET /vault/fields/{id}" -> "Get"
      [] route = "PUT /vault/fields/{id}" -> "Set"
      [] route = "DELETE /vault/fields/{id}" -> "Delete"
      [] route = "GET /vault/context" -> "GetContext"
      [] route = "GET /vault/audit" -> "AuditLog"
      [] route = "PUT /vault/sensitivity/{id}" -> "SetSensitivity"
      [] route = "POST /vault/tokens/service" -> "CreateServiceToken"
      [] route = "GET /vault/tokens/service" -> "ListServiceTokens"
      [] route = "DELETE /vault/tokens/service/{token}" -> "RevokeServiceToken"
      [] OTHER -> route

\* The routes whose handler starts with the isSessionAuth check.
SessionRoutes ==
    {"POST /vault/lock", "GET /vault/audit", "POST /vault/tokens/service",
     "GET /vault/tokens/service", "DELETE /vault/tokens/service/{token}"}

\* The routes whose handler checks ValidateFieldID and ScopeAllows on the path's id.
FieldRoutes ==
    {"GET /vault/fields/{id}", "PUT /vault/fields/{id}", "DELETE /vault/fields/{id}",
     "PUT /vault/sensitivity/{id}"}

\* schema.go: the recommended schema's default tiers (b.x stands for financial.ssn).
schemaIndex == (<<"b", ".", "x">> :> "critical")

DefaultSensitivity(id) ==
    IF id \in DOMAIN schemaIndex THEN schemaIndex[id] ELSE "standard"

\* handleVaultError, and handleUnlock's switch: the constraint of a core error.
Constraint(err) ==
    CASE err = ErrNone -> "ok"
      [] err = ErrLocked -> "vault_locked"
      [] err = ErrAlreadyUnlocked -> "conflict"
      [] err = ErrNotInitialized -> "not_initialized"
      [] err = ErrInvalidTier -> "invalid_request"
      [] OTHER -> "internal"

UnlockConstraint(err) ==
    CASE err = ErrNone -> "ok"
      [] err = ErrWrongPassword -> "unauthenticated"
      [] err = ErrAlreadyUnlocked -> "conflict"
      [] err = ErrNotInitialized -> "not_initialized"
      [] OTHER -> "internal"

\* A session-only handler that lets any authenticated caller read the audit log.
SessionRoutePreCheckOpenAudit(call, rq, sessionAuth) ==
    IF call # "GET /vault/audit" /\ ~sessionAuth THEN "session_required"
    ELSE IF call = "POST /vault/tokens/service" /\ rq.consumer = "" THEN "invalid_request"
    ELSE ""

\* What a handler does before it calls the core: "" to go on, else the constraint it
\* answers with.  The session-only handlers start with the isSessionAuth check.
SessionRoutePreCheck(call, rq, sessionAuth) ==
    IF ~sessionAuth THEN "session_required"
    ELSE IF call = "POST /vault/tokens/service" /\ rq.consumer = "" THEN "invalid_request"
    ELSE IF call = "POST /vault/tokens/service" /\ ~rq.ttl.ok THEN "invalid_request"
    ELSE ""

\* Single-field handlers of which the one of DELETE does not look at the scope.
FieldRoutePreCheckDeleteUnscoped(call, rq, scope) ==
    IF ~ValidateFieldID(rq.id) THEN "invalid_request"
    ELSE IF call # "DELETE /vault/fields/{id}" /\ ~ScopeAllows(scope, rq.id) THEN "scope_exceeded"
    ELSE IF call = "PUT /vault/fields/{id}" /\ rq.value = "" THEN "invalid_request"
    ELSE IF call = "PUT /vault/sensitivity/{id}" /\ rq.tier = "" THEN "invalid_request"
    ELSE ""

\* The single-field handlers: ValidateFieldID, ScopeAllows, then the body's fields.
FieldRoutePreCheck(call, rq, scope) ==
    IF ~ValidateFieldID(rq.id) THEN "invalid_request"
    ELSE IF ~ScopeAllows(scope, rq.id) THEN "scope_exceeded"
    ELSE IF call = "PUT /vault/fields/{id}" /\ rq.value = "" THEN "invalid_request"
    ELSE IF call = "PUT /vault/sensitivity/{id}" /\ rq.tier = "" THEN "invalid_request"
    ELSE ""

\* handleGetByCategory: ValidCategoryName, then ScopeAllowsCategory.
CategoryRoutePreCheck(rq, scope) ==
    IF ~ValidCategoryName(rq.category) THEN "invalid_request"
    ELSE IF ~ScopeAllowsCategory(scope, rq.category) THEN "scope_exceeded"
    ELSE ""

\* The checks of a call.  A direct caller's Set validates the identifier itself.
PreCheck(call, rq, scope, sessionAuth) ==
    IF call \in SessionRoutes THEN SessionRoutePreCheck(call, rq, sessionAuth)
    ELSE IF call \in FieldRoutes THEN FieldRoutePreCheck(call, rq, scope)
    ELSE IF call = "GET /vault/fields/category/{category}" THEN CategoryRoutePreCheck(rq, scope)
    ELSE IF call = "Set" /\ ~ValidateFieldID(rq.id) THEN ErrInvalidID
    ELSE ""

\* The arguments the handler passes on to the core.
CoreArgs(call, rq) ==
    IF call = "PUT /vault/fields/{id}" /\ rq.tier = ""
    THEN [rq EXCEPT !.tier = DefaultSensitivity(rq.id)]
    ELSE IF call = "POST /vault/tokens/service"
    THEN [rq EXCEPT !.scope = IF @ = <<>> THEN <<"*">> ELSE @,
                    !.ttl = IF @.set THEN @ ELSE TTLOf(DefaultTokenTTL)]
    ELSE rq

\* The key buffers a core method holds when it returns, as it leaves them: the copy of
\* the master key that requireUnlocked handed it and the category subkeys it derived.
\* No method overwrites them before it returns.
KeysLeft(st, vaultKey, op, rq) ==
    {vaultKey} \cup
    (CASE op = "Set" -> {DeriveSubkey(vaultKey, st.vsalt, Category(rq.id))}
       [] op = "Get" -> IF HasField(st.fields, rq.id)
                        THEN {DeriveSubkey(vaultKey, st.vsalt, st.fields[rq.id].category)}
                        ELSE {}
       [] op = "GetByCategory" -> {DeriveSubkey(vaultKey, st.vsalt, rq.category)}
       [] op = "GetContext" -> {DeriveSubkey(vaultKey, st.vsalt, f.category) : f \in Rows(st.fields)}
       [] OTHER -> {})

\* The body of core method op, once requireUnlocked has returned vaultKey.
CoreBody(st, vaultKey, op, rq) ==
    LET r == CASE op = "Set" -> SetWithKey(st, vaultKey, rq.id, rq.value, rq.tier)
              [] op = "Get" -> GetWithKey(st, vaultKey, rq.id)
              [] op = "List" -> ListUnlocked(st)
              [] op = "ListByCategory" -> ListByCategoryUnlocked(st, rq.category)
              [] op = "GetByCategory" -> GetByCategoryWithKey(st, vaultKey, rq.category)
              [] op = "GetContext" -> GetContextWithKey(st, vaultKey)
              [] op = "Delete" -> DeleteUnlocked(st, rq.id)
              [] op = "SetSensitivity" -> SetSensitivityUnlocked(st, rq.id, rq.tier)
              [] op = "CreateServiceToken" -> CreateServiceTokenUnlocked(st, rq.consumer, rq.scope, rq.ttl.d)
              [] op = "ListServiceTokens" -> ListServiceTokensUnlocked(st)
              [] op = "RevokeServiceToken" -> RevokeServiceTokenUnlocked(st, rq.token)
    IN  [r EXCEPT !.res.keys = KeysLeft(st, vaultKey, op, rq)]

\* The scope filter of handleListFields and handleGetByCategory.
FilterRows(rows, scope) == SelectSeq(rows, LAMBDA f : ScopeAllows(scope, f.id))

\* A filter of the bundle that keeps a category whose fields were all filtered out.
FilterBundleKeepsEmpty(bundle, scope) ==
    [c \in DOMAIN bundle |-> SelectSeq(bundle[c], LAMBDA f : ScopeAllows(scope, f.id))]

\* The scope filter of handleGetContext: a category is added with its first allowed field.
FilterBundle(bundle, scope) ==
    IF scope = <<"*">> THEN bundle
    ELSE LET kept == {c \in DOMAIN bundle : FilterRows(bundle[c], scope) # <<>>}
         IN  [c \in kept |-> FilterRows(bundle[c], scope)]

\* handleListServiceTokens: of the stored hash it shows the first characters.
TokenInfo(t) ==
    [token_prefix |-> [prefix8 |-> t.token], consumer |-> t.consumer, scope |-> t.scope,
     expires_at |-> t.expires_at, created_at |-> t.created_at]

\* What the handler answers once the core has returned res.
Respond(call, scope, res) ==
    IF res.err # ErrNone
    THEN [constraint |-> Constraint(res.err), res |-> [Result(res.err) EXCEPT !.keys = res.keys]]
    ELSE IF call = "GET /vault/tokens/service"
    THEN [constraint |-> "ok", res |-> [res EXCEPT !.tokens = {TokenInfo(t) : t \in @}]]
    ELSE IF call \in {"GET /vault/fields", "GET /vault/fields/category/{category}"}
    THEN [constraint |-> "ok", res |-> [res EXCEPT !.rows = FilterRows(@, scope)]]
    ELSE IF call = "GET /vault/context"
    THEN [constraint |-> "ok", res |-> [res EXCEPT !.bundle = FilterBundle(@, scope)]]
    ELSE IF call = "GET /vault/fields/{id}" /\ res.rows = <<>>
    THEN [constraint |-> "not_found", res |-> res]
    ELSE IF call = "DELETE /vault/tokens/service/{token}" /\ res.n = 0
    THEN [constraint |-> "not_found", res |-> res]
    ELSE [constraint |-> "ok", res |-> res]

\* A direct caller gets the core's error as it is.
Return(call, scope, res) ==
    IF call \in Routes THEN Respond(call, scope, res)
    ELSE [constraint |-> res.err, res |-> res]

(***************************************************************************)
(* The calls the model makes.                                              *)
(***************************************************************************)
NoRq ==
    [id |-> <<>>, category |-> <<>>, value |-> "", tier |-> "", consumer |-> "",
     scope |-> <<>>, token |-> EmptyToken, ttl |-> NoTTL, limit |-> 0]

\* The arguments of a call, drawn from the input sets in.
Requests(call, in) ==
    LET op == RouteOp(call)
    IN  CASE op \in {"Get", "Delete"} -> {[NoRq EXCEPT !.id = i] : i \in in.ids}
          [] op = "Set" ->
                {[NoRq EXCEPT !.id = a[1], !.value = a[2], !.tier = a[3]] :
                    a \in in.ids \X in.values \X in.tiers}
          [] op = "SetSensitivity" ->
                {[NoRq EXCEPT !.id = a[1], !.tier = a[2]] : a \in in.ids \X in.tiers}
          [] op \in {"GetByCategory", "ListByCategory"} ->
                {[NoRq EXCEPT !.category = c] : c \in in.cats}
          [] op = "CreateServiceToken" ->
                {[NoRq EXCEPT !.consumer = a[1], !.scope = a[2], !.ttl = a[3]] :
                    a \in in.consumers \X in.scopes \X
                          (IF call \in Routes THEN in.ttls
                           ELSE {IF t.set THEN t ELSE TTLOf(DefaultTokenTTL) :
                                    t \in {u \in in.ttls : u.ok}})}
          [] op = "AuditLog" -> {[NoRq EXCEPT !.limit = n] : n \in in.limits}
          [] op = "RevokeServiceToken" -> {[NoRq EXCEPT !.token = t] : t \in in.tokens}
          [] OTHER -> {NoRq}

\* The locals of a request in flight.  Which method was called, and with which
\* arguments, cannot matter before the method's body runs, so the model draws them
\* there (and where a response names them), among the calls whose checks pass.
NoLoc == [http |-> FALSE, sessionAuth |-> FALSE, scope |-> <<>>, consumer |-> "",
          key |-> NilKey]

\* A response, with the request it answers: the call, its arguments, how the caller
\* was authenticated (auth is "session", "service", "direct" or "none") with which
\* scope, and whether the handler called the core method.
NoReq ==
    [rq |-> NoRq, auth |-> "", scope |-> <<>>, password |-> <<>>, secretKeyHex |-> <<>>,
     scheme |-> "", bearer |-> EmptyToken]

Req(rq, l) ==
    [NoReq EXCEPT !.rq = rq, !.scope = l.scope,
                  !.auth = IF ~l.http THEN "direct" ELSE IF l.sessionAuth THEN "session"
                           ELSE "service"]

NoResp == [call |-> "", constraint |-> "", res |-> Result(ErrNone), core |-> FALSE, req |-> NoReq]

Response(call, req, core, r) ==
    [call |-> call, constraint |-> r.constraint, res |-> r.res, core |-> core, req |-> req]

\* The calls that reach the core.
CoreCalls(http) ==
    IF http THEN Routes \ {"POST /vault/lock", "GET /vault/audit"} ELSE PrivilegedOps

\* What the concurrent program is exercised with: the credentials of Init, a wrong
\* password, a secret key that is not hexadecimal; reads and writes of one field.
CredentialsA ==
    {<<InitPassword, InitSecretKeyHex>>, <<<<112>>, InitSecretKeyHex>>,
     <<InitPassword, <<"z", "z", "0", "1">>>>}
CallsA == {"Get", "Set", "GET /vault/fields/{id}", "PUT /vault/fields/{id}"}

\* The bounds of the model: what a step leaves must fit.
Within(s) ==
    /\ Len(s.audit) <= MaxAudit
    /\ s.nsess <= MaxSessions
    /\ s.nsvc <= MaxSvc
    /\ \A id \in DOMAIN s.fields : s.fields[id].version <= MaxVersion

\* handleAuditLog: the limit of the query string, 50 without one, 1000 at most.
AuditLimit(n) == IF n > 0 THEN (IF n > 1000 THEN 1000 ELSE n) ELSE 50

InputsA ==
    [ids |-> {idAX, <<"a">>}, cats |-> {<<"a">>}, values |-> {"v1"}, tiers |-> {"", "bogus"},
     consumers |-> {"app"}, scopes |-> {<<"a", ".", "*">>}, tokens |-> {ServiceToken(1)},
     ttls |-> {NoTTL}, limits |-> {0}]

\* The bearer strings a client may send.
Bearers == {SessionToken(n) : n \in Sessions} \cup {ServiceToken(1), GarbageToken}

(***************************************************************************)
(* The concurrent program: request handlers and direct callers (Procs),    *)
(* the timer goroutines of the sessions, and the passing of time.          *)
(***************************************************************************)
Init ==
    /\ vsession = 0
    /\ vsalt = <<>>
    /\ sess = [s \in Sessions |-> NoSession]
    /\ nsess = 0
    /\ meta = InitMeta(InitPassword, InitSecretKey, InitSalt)
    /\ dir = InitDir(InitSecretKey)
    /\ fields = (idAX :> Sealed(idAX, "v1", "standard", 1))
    /\ tokens = (hashServiceToken(ServiceToken(1)) :>
                    [token |-> hashServiceToken(ServiceToken(1)), consumer |-> "app",
                     scope |-> <<"a", ".", "*">>, usage |-> "service",
                     expires_at |-> FormatRFC3339(DefaultTokenTTL), created_at |-> 0])
    /\ nsvc = 1
    /\ audit = <<>>
    /\ pc = [p \in Procs |-> "idle"]
    /\ loc = [p \in Procs |-> NoLoc]
    /\ resp = NoResp
    /\ served = 0
    /\ now = 0
    /\ unlockLimit = <<>>
    /\ hist = <<>>

\* Handler p stands at label, and the last response has been delivered.
At(p, label) == resp = NoResp /\ pc[p] = label

Done(p, r) ==
    /\ pc' = [pc EXCEPT ![p] = "idle"]
    /\ loc' = [loc EXCEPT ![p] = NoLoc]
    /\ resp' = r
    /\ UNCHANGED <<served, unlockLimit, hist>>

Goto(p, label, l) ==
    /\ pc' = [pc EXCEPT ![p] = label]
    /\ loc' = [loc EXCEPT ![p] = l]
    /\ resp' = NoResp
    /\ UNCHANGED <<served, unlockLimit, hist>>

StoreUnchanged == UNCHANGED <<vsession, vsalt, sess, nsess, meta, dir, fields, tokens, nsvc, audit, now>>

Direct == [NoLoc EXCEPT !.sessionAuth = TRUE, !.scope = Star]

\* Vault.Unlock, called directly; v.mu.Lock() waits for the readers to leave.
UnlockCall(p, password, secretKeyHex) ==
    /\ At(p, "idle")
    /\ Readers = {}
    /\ vsession # 0 \/ nsess < MaxSessions
    /\ LET r == Unlock(St, password, secretKeyHex)
       IN  /\ Within(r.st)
           /\ Commit(r.st)
           /\ Done(p, Response("Unlock",
                               [NoReq EXCEPT !.auth = "direct", !.password = password,
                                             !.secretKeyHex = secretKeyHex],
                               TRUE,
                               [constraint |-> r.err,
                                res |-> [Result(r.err) EXCEPT !.token = r.token,
                                                              !.local = r.local]]))

\* Vault.Lock, called directly.
LockCall(p) ==
    /\ At(p, "idle")
    /\ Readers = {}
    /\ Within(Lock(St))
    /\ Commit(Lock(St))
    /\ Done(p, Response("Lock", Req(NoRq, Direct), TRUE,
                        [constraint |-> ErrNone, res |-> Result(ErrNone)]))

\* Vault.Status: the Locked flag, read under v.mu.RLock() (the counts are not modelled).
StatusCall(p) ==
    /\ At(p, "idle")
    /\ ~WriterWaiting
    /\ Done(p, Response("Status", Req(NoRq, Direct), TRUE,
                        [constraint |-> ErrNone,
                         res |-> [Result(ErrNone) EXCEPT !.locked = StatusLocked(St)]]))
    /\ StoreUnchanged

\* A direct call of Set with an identifier ValidateFieldID refuses.
CallRefused(p, op, rq) ==
    /\ At(p, "idle")
    /\ op \in PrivilegedOps
    /\ PreCheck(op, rq, Star, TRUE) # ""
    /\ Done(p, Response(op, Req(rq, Direct), TRUE,
                        [constraint |-> PreCheck(op, rq, Star, TRUE),
                         res |-> Result(PreCheck(op, rq, Star, TRUE))]))
    /\ StoreUnchanged

\* A direct call of a privileged core method, up to requireUnlocked.
BeginCall(p) ==
    /\ At(p, "idle")
    /\ Goto(p, "enter", Direct)
    /\ StoreUnchanged

\* authMiddleware, mounted on "/" before the protected routes: a bearer token that
\* is neither the session's nor a service token's.
AuthRefused(p, token) ==
    /\ At(p, "idle")
    /\ ~WriterWaiting
    /\ ~ValidateToken(St, token)
    /\ ~ValidateServiceToken(St, token).found
    /\ Done(p, Response("/", [NoReq EXCEPT !.auth = "none"], FALSE,
                        [constraint |-> "unauthenticated", res |-> Result(ErrNone)]))
    /\ StoreUnchanged

\* What authMiddleware puts in the request's context for a valid bearer token.
AuthContext(st, token) ==
    IF ValidateToken(st, token)
    THEN [NoLoc EXCEPT !.http = TRUE, !.sessionAuth = TRUE, !.scope = Star]
    ELSE [NoLoc EXCEPT !.http = TRUE,
                       !.scope = ValidateServiceToken(st, token).row.scope,
                       !.consumer = ValidateServiceToken(st, token).row.consumer]

\* authMiddleware up to the validation of the bearer token.
Authenticate(p, token) ==
    /\ At(p, "idle")
    /\ ~WriterWaiting
    /\ ValidateToken(St, token) \/ ValidateServiceToken(St, token).found
    /\ Goto(p, "touch", AuthContext(St, token))
    /\ StoreUnchanged

\* authMiddleware: s.vault.TouchSession().
AuthTouch(p) ==
    /\ At(p, "touch")
    /\ ~WriterWaiting
    /\ Commit(TouchSession(St))
    /\ Goto(p, IF loc[p].sessionAuth THEN "handler" ELSE "log", loc[p])

\* authMiddleware: the api_access entry of a service token.
ApiAccess(st, l) ==
    [st EXCEPT !.audit = LogAccess(@, AuditEntry(l.consumer, l.scope, "api_access"), st.now)]

AuthLog(p) ==
    /\ At(p, "log")
    /\ Within(ApiAccess(St, loc[p]))
    /\ Commit(ApiAccess(St, loc[p]))
    /\ Goto(p, "handler", [loc[p] EXCEPT !.consumer = ""])

\* A handler that answers before it calls the core.
HandleReject(p, route, rq) ==
    /\ At(p, "handler")
    /\ PreCheck(route, rq, loc[p].scope, loc[p].sessionAuth) # ""
    /\ Done(p, Response(route, Req(rq, loc[p]), FALSE,
                        [constraint |-> PreCheck(route, rq, loc[p].scope, loc[p].sessionAuth),
                         res |-> Result(ErrNone)]))
    /\ StoreUnchanged

\* handleLock
HandleLock(p) ==
    /\ At(p, "handler")
    /\ PreCheck("POST /vault/lock", NoRq, loc[p].scope, loc[p].sessionAuth) = ""
    /\ Readers = {}
    /\ Within(Lock(St))
    /\ Commit(Lock(St))
    /\ Done(p, Response("POST /vault/lock", Req(NoRq, loc[p]), TRUE,
                        [constraint |-> "ok", res |-> Result(ErrNone)]))

\* handleAuditLog
HandleAudit(p) ==
    /\ At(p, "handler")
    /\ PreCheck("GET /vault/audit", NoRq, loc[p].scope, loc[p].sessionAuth) = ""
    /\ Done(p, Response("GET /vault/audit", Req(NoRq, loc[p]), TRUE,
                        [constraint |-> "ok",
                         res |-> [Result(ErrNone) EXCEPT !.entries = GetAuditLog(audit, AuditLimit(NoRq.limit))]]))
    /\ StoreUnchanged

\* A handler whose checks pass calls the core.
HandleCore(p, route, rq) ==
    /\ At(p, "handler")
    /\ route \in CoreCalls(TRUE)
    /\ PreCheck(route, rq, loc[p].scope, loc[p].sessionAuth) = ""
    /\ Goto(p, "enter", loc[p])
    /\ StoreUnchanged

\* requireUnlocked finds v.session nil: the call returns the locked error.
EnterLocked(p, call, rq) ==
    /\ At(p, "enter")
    /\ ~WriterWaiting
    /\ call \in CoreCalls(loc[p].http)
    /\ PreCheck(call, rq, loc[p].scope, loc[p].sessionAuth) = ""
    /\ requireUnlockedTouch(St).err # ErrNone
    /\ Done(p, Response(call, Req(rq, loc[p]), TRUE,
                        Return(call, loc[p].scope, Result(requireUnlockedTouch(St).err))))
    /\ StoreUnchanged

\* requireUnlocked: v.mu.RLock(), the nil check, Touch.
Enter(p) ==
    /\ At(p, "enter")
    /\ ~WriterWaiting
    /\ requireUnlockedTouch(St).err = ErrNone
    /\ Commit(requireUnlockedTouch(St).st)
    /\ Goto(p, "key", loc[p])

\* requireUnlocked finds the key gone: the call returns the locked error.
KeyLocked(p, call, rq) ==
    /\ At(p, "key")
    /\ call \in CoreCalls(loc[p].http)
    /\ PreCheck(call, rq, loc[p].scope, loc[p].sessionAuth) = ""
    /\ requireUnlockedKey(St).err # ErrNone
    /\ Done(p, Response(call, Req(rq, loc[p]), TRUE,
                        Return(call, loc[p].scope, Result(requireUnlockedKey(St).err))))
    /\ StoreUnchanged

\* requireUnlocked: VaultKey, the nil check of the copy, v.mu.RUnlock().
Key(p) ==
    /\ At(p, "key")
    /\ requireUnlockedKey(St).err = ErrNone
    /\ Goto(p, "body", [loc[p] EXCEPT !.key = requireUnlockedKey(St).key])
    /\ StoreUnchanged

\* The rest of the core method, and what the handler makes of its result.
Body(p, call, rq) ==
    /\ At(p, "body")
    /\ call \in CoreCalls(loc[p].http)
    /\ PreCheck(call, rq, loc[p].scope, loc[p].sessionAuth) = ""
    /\ LET r == CoreBody(St, loc[p].key, RouteOp(call), CoreArgs(call, rq))
       IN  /\ Within(r.st)
           /\ Commit(r.st)
           /\ Done(p, Response(call, Req(rq, loc[p]), TRUE, Return(call, loc[p].scope, r.res)))

\* The runtime timer of a session reaches its deadline: it starts the goroutine
\* that runs autoLock.
timerExpire(se) == [se EXCEPT !.remaining = 0, !.armed = FALSE, !.firing = @ + 1]

\* The caller takes the response; the next step is taken after that.
Deliver ==
    /\ resp # NoResp
    /\ resp' = NoResp
    /\ UNCHANGED <<vsession, vsalt, sess, nsess, meta, dir, fields, tokens, nsvc, audit, pc, loc, served, now, unlockLimit, hist>>

\* One unit of time passes for a session.
TickSession(se) ==
    LET aged == [se EXCEPT !.idle = IF se.hasKey /\ @ < TTL THEN @ + 1 ELSE @]
    IN  IF ~se.armed THEN aged
        ELSE IF se.remaining > 1 THEN [aged EXCEPT !.remaining = @ - 1]
        ELSE timerExpire(aged)

Tick ==
    /\ resp = NoResp
    /\ \E s \in Sessions : sess[s].armed
    /\ \A s \in Sessions :
          TickSession(sess[s]).firing + sess[s].locking + sess[s].waiting <= MaxPending
    /\ sess' = [s \in Sessions |-> TickSession(sess[s])]
    /\ resp' = NoResp
    /\ UNCHANGED <<vsession, vsalt, nsess, meta, dir, fields, tokens, nsvc, audit, pc, loc, served, now, unlockLimit, hist>>

\* Session.autoLock of session s, from s.mu.Lock() to s.mu.Unlock().
AutoLockZero(s) ==
    /\ resp = NoResp
    /\ sess[s].firing > 0
    /\ sess' = [sess EXCEPT ![s] = autoLockCritical(@)]
    /\ resp' = NoResp
    /\ UNCHANGED <<vsession, vsalt, nsess, meta, dir, fields, tokens, nsvc, audit, pc, loc, served, now, unlockLimit, hist>>

\* Session.autoLock of session s calls lockFn while handlers hold v.mu.RLock(): it
\* blocks in v.mu.Lock().
AutoLockWait(s) ==
    /\ resp = NoResp
    /\ sess[s].locking > 0
    /\ Readers # {}
    /\ sess' = [sess EXCEPT ![s].locking = @ - 1, ![s].waiting = @ + 1]
    /\ resp' = NoResp
    /\ UNCHANGED <<vsession, vsalt, nsess, meta, dir, fields, tokens, nsvc, audit, pc, loc, served, now, unlockLimit, hist>>

\* lockFn of session s has the lock: v.session = nil.
lockFnDone(st, s) ==
    IF st.sess[s].waiting > 0
    THEN [lockFn(st) EXCEPT !.sess[s].waiting = @ - 1]
    ELSE [lockFn(st) EXCEPT !.sess[s].locking = @ - 1]

\* Session.autoLock of session s: lockFn, from v.mu.Lock() to v.mu.Unlock().
AutoLockCallback(s) ==
    /\ resp = NoResp
    /\ sess[s].locking + sess[s].waiting > 0
    /\ Readers = {}
    /\ Commit(lockFnDone(St, s))
    /\ resp' = NoResp
    /\ UNCHANGED <<pc, loc, served, unlockLimit, hist>>

Next ==
    \/ \E p \in Procs, c \in CredentialsA : UnlockCall(p, c[1], c[2])
    \/ \E p \in Procs : LockCall(p)
    \/ \E p \in Procs : StatusCall(p)
    \/ \E p \in Procs, op \in CallsA : \E rq \in Requests(op, InputsA) : CallRefused(p, op, rq)
    \/ \E p \in Procs : BeginCall(p)
    \/ \E p \in Procs, token \in Bearers : AuthRefused(p, token)
    \/ \E p \in Procs, token \in Bearers : Authenticate(p, token)
    \/ \E p \in Procs : AuthTouch(p)
    \/ \E p \in Procs : AuthLog(p)
    \/ \E p \in Procs, route \in CallsA \cup SessionRoutes :
          \E rq \in Requests(route, InputsA) : HandleReject(p, route, rq)
    \/ \E p \in Procs : HandleLock(p)
    \/ \E p \in Procs : HandleAudit(p)
    \/ \E p \in Procs, route \in CallsA : \E rq \in Requests(route, InputsA) : HandleCore(p, route, rq)
    \/ \E p \in Procs, call \in CallsA : \E rq \in Requests(call, InputsA) : EnterLocked(p, call, rq)
    \/ \E p \in Procs : Enter(p)
    \/ \E p \in Procs, call \in CallsA : \E rq \in Requests(call, InputsA) : KeyLocked(p, call, rq)
    \/ \E p \in Procs : Key(p)
    \/ \E p \in Procs, call \in CallsA : \E rq \in Requests(call, InputsA) : Body(p, call, rq)
    \/ Tick
    \/ \E s \in Sessions : AutoLockZero(s)
    \/ \E s \in Sessions : AutoLockWait(s)
    \/ \E s \in Sessions : AutoLockCallback(s)
    \/ Deliver

Spec == Init /\ [][Next]_vars

(***************************************************************************)
(* The sequential program: one client whose calls and requests run to      *)
(* completion one after the other, over every store content and every      *)
(* service-token scope of the input sets; an idle expiry happens between   *)
(* two of them.                                                            *)
(***************************************************************************)
\* A privileged core method as a whole: requireUnlocked, then its body.
CoreCall(st, call, rq) ==
    LET t == requireUnlockedTouch(st)
        k == requireUnlockedKey(t.st)
    IN  IF t.err # ErrNone THEN [st |-> st, res |-> Result(t.err)]
        ELSE IF k.err # ErrNone THEN [st |-> t.st, res |-> Result(k.err)]
        ELSE CoreBody(t.st, k.key, RouteOp(call), CoreArgs(call, rq))

\* The handler of a protected route as a whole, behind authMiddleware's context l.
Handle(st, l, route, rq) ==
    LET pre == PreCheck(route, rq, l.scope, l.sessionAuth)
        r == CoreCall(st, route, rq)
    IN  IF pre # ""
        THEN [st |-> st,
              resp |-> Response(route, Req(rq, l), FALSE,
                                [constraint |-> pre, res |-> Result(ErrNone)])]
        ELSE IF route = "POST /vault/lock"
        THEN [st |-> Lock(st),
              resp |-> Response(route, Req(rq, l), TRUE,
                                [constraint |-> "ok", res |-> Result(ErrNone)])]
        ELSE IF route = "GET /vault/audit"
        THEN [st |-> st,
              resp |-> Response(route, Req(rq, l), TRUE,
                                [constraint |-> "ok",
                                 res |-> [Result(ErrNone) EXCEPT
                                            !.entries = GetAuditLog(st.audit, AuditLimit(rq.limit))]])]
        ELSE [st |-> r.st,
              resp |-> Response(route, Req(rq, l), TRUE, Return(route, l.scope, r.res))]

\* authMiddleware and the handler behind it, for a bearer token that validates.
Serve(st, token, route, rq) ==
    LET l == AuthContext(st, token)
        touched == TouchSession(st)
    IN  Handle(IF l.sessionAuth THEN touched ELSE ApiAccess(touched, l), l, route, rq)

\* A request to a protected route with a bearer token that validates.
Request(token, route, rq) ==
    /\ resp = NoResp
    /\ served < MaxRequests
    /\ ValidateToken(St, token) \/ ValidateServiceToken(St, token).found
    /\ LET r == Serve(St, token, route, rq)
       IN  /\ Within(r.st)
           /\ Commit(r.st)
           /\ resp' = r.resp
    /\ served' = served + 1
    /\ UNCHANGED <<pc, loc, unlockLimit, hist>>

\* A direct call of a privileged core method.
Call(op, rq) ==
    /\ resp = NoResp
    /\ served < MaxRequests
    /\ PreCheck(op, rq, Star, TRUE) = ""
    /\ LET r == CoreCall(St, op, rq)
       IN  /\ Within(r.st)
           /\ Commit(r.st)
           /\ resp' = Response(op, Req(rq, Direct), TRUE, Return(op, Star, r.res))
    /\ served' = served + 1
    /\ UNCHANGED <<pc, loc, unlockLimit, hist>>

\* The idle timer of the session expires and autoLock runs to its end.
Expired(st) ==
    LET s == st.vsession
        fired == [st EXCEPT !.sess[s] = timerExpire(@)]
        zeroed == [fired EXCEPT !.sess[s] = autoLockCritical(@)]
    IN  lockFnDone(zeroed, s)

IdleExpiry ==
    /\ resp = NoResp
    /\ vsession # 0
    /\ sess[vsession].armed
    /\ Commit(Expired(St))
    /\ resp' = NoResp
    /\ UNCHANGED <<pc, loc, served, unlockLimit, hist>>

\* The contents of the database the server may open.
StoresB ==
    LET all == (idAX :> Sealed(idAX, "v1", "standard", 1)) @@
               (idAY :> Sealed(idAY, "v2", "sensitive", 2)) @@
               (idBX :> Sealed(idBX, "v1", "critical", 1))
    IN  {[id \in D |-> all[id]] : D \in SUBSET {idAX, idAY, idBX}}

ScopesB ==
    {<<"*">>, <<"a", ".", "*">>, <<"a", ".", "x">>, <<"b", ".", "*">>,
     <<"a", ".", "x", ",", "b", ".", "x">>, <<" ", "a", ".", "*", " ", ",", "b", ".", "y">>,
     <<>>, <<"a">>}

InputsB ==
    [ids |-> {idAX, idAY, idBX, <<"a">>}, cats |-> {<<"a">>, <<"b">>, <<"c">>, <<".">>},
     values |-> {"v2", ""}, tiers |-> {"", "critical", "bogus"},
     consumers |-> {"app", ""}, scopes |-> {<<"b", ".", "*">>, <<>>},
     tokens |-> {ServiceToken(1), GarbageToken}, ttls |-> {NoTTL}, limits |-> {0}]

InitB ==
    /\ vsession = 0
    /\ vsalt = <<>>
    /\ sess = [s \in Sessions |-> NoSession]
    /\ nsess = 0
    /\ meta = InitMeta(InitPassword, InitSecretKey, InitSalt)
    /\ dir = InitDir(InitSecretKey)
    /\ fields \in StoresB
    /\ \E scope \in ScopesB :
          tokens = (hashServiceToken(ServiceToken(1)) :>
                      [token |-> hashServiceToken(ServiceToken(1)), consumer |-> "app",
                       scope |-> scope, usage |-> "service",
                     expires_at |-> FormatRFC3339(DefaultTokenTTL), created_at |-> 0])
    /\ nsvc = 1
    /\ audit = <<>>
    /\ pc = [p \in Procs |-> "idle"]
    /\ loc = [p \in Procs |-> NoLoc]
    /\ resp = NoResp
    /\ served = 0
    /\ now = 0
    /\ unlockLimit = <<>>
    /\ hist = <<>>

NextB ==
    \/ \E password \in Passwords, secretKeyHex \in SecretKeyInputs :
          UnlockCall(1, password, secretKeyHex)
    \/ LockCall(1)
    \/ StatusCall(1)
    \/ \E op \in PrivilegedOps : \E rq \in Requests(op, InputsB) : CallRefused(1, op, rq)
    \/ \E op \in PrivilegedOps : \E rq \in Requests(op, InputsB) : Call(op, rq)
    \/ \E token \in Bearers : AuthRefused(1, token)
    \/ \E token \in Bearers, route \in Routes : \E rq \in Requests(route, InputsB) :
          Request(token, route, rq)
    \/ IdleExpiry
    \/ Deliver

SpecB == InitB /\ [][NextB]_vars

(***************************************************************************)
(* The fair program: direct callers of Unlock, Lock and Get, the timers    *)
(* and the auto-lock goroutines, under the scheduling Go guarantees.  A    *)
(* goroutine that can run does run: autoLock gets s.mu, which is held for  *)
(* a few instructions only, and a handler inside requireUnlocked leaves    *)
(* it.  A writer blocked in v.mu.Lock() keeps new readers out, so it gets  *)
(* the lock once the readers it found have left.  A step of the model      *)
(* waits for the response before it to be taken, hence strong fairness.    *)
(***************************************************************************)
GetRequests == Requests("Get", InputsA)

NextF ==
    \/ \E p \in Procs : UnlockCall(p, InitPassword, InitSecretKeyHex)
    \/ \E p \in Procs : LockCall(p)
    \/ \E p \in Procs : BeginCall(p)
    \/ \E p \in Procs, rq \in GetRequests : EnterLocked(p, "Get", rq)
    \/ \E p \in Procs : Enter(p)
    \/ \E p \in Procs, rq \in GetRequests : KeyLocked(p, "Get", rq)
    \/ \E p \in Procs : Key(p)
    \/ \E p \in Procs, rq \in GetRequests : Body(p, "Get", rq)
    \/ Tick
    \/ \E s \in Sessions : AutoLockZero(s)
    \/ \E s \in Sessions : AutoLockWait(s)
    \/ \E s \in Sessions : AutoLockCallback(s)
    \/ Deliver

Fairness ==
    /\ \A s \in Sessions : SF_vars(AutoLockZero(s))
    /\ \A s \in Sessions : SF_vars(AutoLockWait(s) \/ AutoLockCallback(s))
    /\ \A p \in Procs : SF_vars(Key(p) \/ \E rq \in GetRequests : KeyLocked(p, "Get", rq))
    /\ WF_vars(Deliver)

FairSpec == Init /\ [][NextF]_vars /\ Fairness

(***************************************************************************)
(* The token program: a vault with no service token yet, the clock, and a  *)
(* client whose requests, with any bearer, run to completion one after the *)
(* other: it creates service tokens, uses them, revokes them, lets them    *)
(* expire, and reads the audit log.                                        *)
(***************************************************************************)
\* authMiddleware and the handler behind it, for any bearer token.
ServeAny(st, token, route, rq) ==
    IF ~ValidateToken(st, token) /\ ~ValidateServiceToken(st, token).found
    THEN [st |-> st,
          resp |-> Response("/", [NoReq EXCEPT !.auth = "none"], FALSE,
                            [constraint |-> "unauthenticated", res |-> Result(ErrNone)])]
    ELSE Serve(st, token, route, rq)

WithinT(s) ==
    /\ Len(s.audit) <= MaxLog
    /\ s.nsvc <= MaxTokens

TokenRequest(token, route, rq) ==
    /\ resp = NoResp
    /\ LET r == ServeAny(St, token, route, rq)
       IN  /\ WithinT(r.st)
           /\ Commit(r.st)
           /\ resp' = [r.resp EXCEPT !.req.bearer = token]
    /\ UNCHANGED <<pc, loc, served, unlockLimit, hist>>

\* Time passes.
Advance ==
    /\ resp = NoResp
    /\ now < MaxNow
    /\ now' = now + 1
    /\ UNCHANGED <<vsession, vsalt, sess, nsess, meta, dir, fields, tokens, nsvc, audit, pc, loc,
                   resp, served, unlockLimit, hist>>

RoutesT ==
    {"POST /vault/tokens/service", "GET /vault/tokens/service",
     "DELETE /vault/tokens/service/{token}", "GET /vault/audit", "GET /vault/fields/{id}"}

BearersT == {SessionToken(1), ServiceToken(1), ServiceToken(2)}

InputsT ==
    [ids |-> {idAX}, cats |-> {<<"a">>}, values |-> {"v1"}, tiers |-> {""},
     consumers |-> {"app"}, scopes |-> {<<"a", ".", "*">>},
     tokens |-> {ServiceToken(1), ServiceToken(2), TokenPrefix(1), ListedPrefix(1)},
     ttls |-> {NoTTL, TTLOf(1), BadTTL}, limits |-> {0, 1, 2}]

InitT ==
    /\ vsession = 0
    /\ vsalt = <<>>
    /\ sess = [s \in Sessions |-> NoSession]
    /\ nsess = 0
    /\ meta = InitMeta(InitPassword, InitSecretKey, InitSalt)
    /\ dir = InitDir(InitSecretKey)
    /\ fields = (idAX :> Sealed(idAX, "v1", "standard", 1))
    /\ tokens = [h \in {} |-> {}]
    /\ nsvc = 0
    /\ audit = <<>>
    /\ pc = [p \in Procs |-> "idle"]
    /\ loc = [p \in Procs |-> NoLoc]
    /\ resp = NoResp
    /\ served = 0
    /\ now = 0
    /\ unlockLimit = <<>>
    /\ hist = <<>>

NextT ==
    \/ UnlockCall(1, InitPassword, InitSecretKeyHex)
    \/ LockCall(1)
    \/ \E token \in BearersT, route \in RoutesT : \E rq \in Requests(route, InputsT) :
          TokenRequest(token, route, rq)
    \/ Advance
    \/ Deliver

SpecT == InitT /\ [][NextT]_vars

(***************************************************************************)
(* The limiter program: the server's POST /vault/unlock, behind the        *)
(* limiter of unlock attempts, called with any body while time passes.     *)
(* hist records every request: when it came, its body and its answer.      *)
(***************************************************************************)
\* newRateLimiter(5, time.Minute): the attempts let through per window (the window is
\* UnlockWindow ticks in the model).
unlockLimitMax == 5

\* A limiter that lets every attempt through.
allowAll(attempts, t) == [attempts |-> Append(attempts, t), ok |-> TRUE]

\* A limiter that records the attempts it refuses as well.
allowCountsRefused(attempts, t) ==
    LET cutoff == t - UnlockWindow
        valid == SelectSeq(attempts, LAMBDA a : After(a, cutoff))
    IN  [attempts |-> Append(valid, t), ok |-> Len(valid) < unlockLimitMax]

\* rateLimiter.allow at time t, under rl.mu: the attempts that are not after the cutoff
\* are dropped; with max attempts left the request is refused and not recorded.
allow(attempts, t) ==
    LET cutoff == t - UnlockWindow
        valid == SelectSeq(attempts, LAMBDA a : After(a, cutoff))
    IN  IF Len(valid) >= unlockLimitMax
        THEN [attempts |-> valid, ok |-> FALSE]
        ELSE [attempts |-> Append(valid, t), ok |-> TRUE]

\* The bodies of the unlock requests: not JSON, without a password, the credentials of
\* Init, and a wrong password.
UnlockBodies ==
    {[json |-> FALSE, password |-> <<>>, secret_key |-> <<>>],
     [json |-> TRUE, password |-> <<>>, secret_key |-> InitSecretKeyHex],
     [json |-> TRUE, password |-> InitPassword, secret_key |-> InitSecretKeyHex],
     [json |-> TRUE, password |-> <<112>>, secret_key |-> InitSecretKeyHex]}

\* handleUnlock's answers to the errors of Vault.Unlock: the HTTP status and the message.
UnlockStatus(err) ==
    CASE err = ErrNone -> 200
      [] err = ErrWrongPassword -> 401
      [] err = ErrAlreadyUnlocked -> 409
      [] err = ErrNotInitialized -> 412
      [] OTHER -> 500

UnlockMessage(err) ==
    CASE err = ErrNone -> ""
      [] err = ErrWrongPassword -> "wrong password or secret key"
      [] err = ErrAlreadyUnlocked -> "vault is already unlocked"
      [] err = ErrNotInitialized -> "vault is not initialized"
      [] OTHER -> "internal error"

\* handleUnlock: the limiter, the body, Vault.Unlock, and the answer.
handleUnlock(st, attempts, body) ==
    LET a == allow(attempts, st.now) IN
    IF ~a.ok
    THEN [st |-> st, attempts |-> a.attempts, constraint |-> "rate_limited", core |-> FALSE,
          token |-> EmptyToken, status |-> 429,
          message |-> "too many unlock attempts, try again later"]
    ELSE IF ~body.json
    THEN [st |-> st, attempts |-> a.attempts, constraint |-> "invalid_request", core |-> FALSE,
          token |-> EmptyToken, status |-> 400, message |-> "invalid JSON"]
    ELSE IF body.password = <<>> \/ body.secret_key = <<>>
    THEN [st |-> st, attempts |-> a.attempts, constraint |-> "invalid_request", core |-> FALSE,
          token |-> EmptyToken, status |-> 400, message |-> "password and secret_key required"]
    ELSE LET r == Unlock(st, body.password, body.secret_key)
         IN  [st |-> r.st, attempts |-> a.attempts, constraint |-> UnlockConstraint(r.err),
              core |-> TRUE, token |-> r.token, status |-> UnlockStatus(r.err),
              message |-> UnlockMessage(r.err)]

\* One POST /vault/unlock, from its arrival to its answer.
UnlockRequest(body) ==
    /\ Len(hist) < MaxAttempts
    /\ LET r == handleUnlock(St, unlockLimit, body)
       IN  /\ Commit(r.st)
           /\ unlockLimit' = r.attempts
           /\ hist' = Append(hist, [at |-> now, body |-> body, constraint |-> r.constraint,
                                    core |-> r.core, token |-> r.token])
    /\ UNCHANGED <<pc, loc, resp, served>>

NextR ==
    \/ \E body \in UnlockBodies : UnlockRequest(body)
    \/ Advance

SpecR == InitT /\ [][NextR]_vars

(***************************************************************************)
(* The field program: a vault holding one field, unlocked by its owner,    *)
(* and clients that call Set, Get, Delete and SetSensitivity on it.  Each  *)
(* call runs to completion (its store access is one SQL statement), and    *)
(* hist records every call with its caller and its result, oldest first.   *)
(***************************************************************************)
\* A direct call of a core method as a whole.
DirectCall(st, op, rq) ==
    LET pre == PreCheck(op, rq, Star, TRUE)
        r == CoreCall(st, op, rq)
    IN  IF pre # ""
        THEN [st |-> st,
              resp |-> Response(op, Req(rq, Direct), TRUE, [constraint |-> pre, res |-> Result(pre)])]
        ELSE [st |-> r.st,
              resp |-> Response(op, Req(rq, Direct), TRUE, Return(op, Star, r.res))]

\* Client p calls op with rq and takes the result; the program makes max calls at most.
ClientCall(p, op, rq, max) ==
    /\ resp = NoResp
    /\ Len(hist) < max
    /\ LET r == DirectCall(St, op, rq)
       IN  /\ Commit(r.st)
           /\ hist' = Append(hist, [client |-> p, resp |-> r.resp])
    /\ UNCHANGED <<pc, loc, resp, served, unlockLimit>>

FieldCalls == {"Set", "Get", "Delete", "SetSensitivity"}

InputsC ==
    [ids |-> {idAX, idAY, <<"a">>}, cats |-> {<<"a">>}, values |-> {"v1", "v2"},
     tiers |-> {"", "critical", "bogus"}, consumers |-> {"app"}, scopes |-> {Star},
     tokens |-> {ServiceToken(1)}, ttls |-> {NoTTL}, limits |-> {0}]

NextC ==
    \/ UnlockCall(1, InitPassword, InitSecretKeyHex)
    \/ \E op \in FieldCalls : \E rq \in Requests(op, InputsC) : ClientCall(1, op, rq, MaxHist)
    \/ Deliver

SpecC == InitT /\ [][NextC]_vars

(***************************************************************************)
(* The version program: the field program with two clients, concurrent     *)
(* request handlers whose calls on the one field interleave in any order.  *)
(***************************************************************************)
InputsV ==
    [ids |-> {idAX}, cats |-> {<<"a">>}, values |-> {"v2"}, tiers |-> {"critical"},
     consumers |-> {"app"}, scopes |-> {Star}, tokens |-> {ServiceToken(1)},
     ttls |-> {NoTTL}, limits |-> {0}]

NextV ==
    \/ UnlockCall(1, InitPassword, InitSecretKeyHex)
    \/ \E p \in Procs, op \in FieldCalls : \E rq \in Requests(op, InputsV) :
          ClientCall(p, op, rq, MaxCalls)
    \/ Deliver

SpecV == InitT /\ [][NextV]_vars

(***************************************************************************)
(* The credentials program: POST /vault/unlock called with the credentials *)
(* of Init, with a wrong password and with a wrong secret key, one request *)
(* after the other.                                                        *)
(***************************************************************************)
\* The body whose secret key is another key: its hash differs from the stored one.
WrongSecretKeyBody ==
    [json |-> TRUE, password |-> InitPassword, secret_key |-> <<"a", "b", "0", "2">>]

\* The body whose password is wrong: the key derived from it fails the verification.
WrongPasswordBody ==
    [json |-> TRUE, password |-> <<112>>, secret_key |-> InitSecretKeyHex]

CredentialBodies ==
    {[json |-> TRUE, password |-> InitPassword, secret_key |-> InitSecretKeyHex],
     WrongSecretKeyBody, WrongPasswordBody}

NextU == \E body \in CredentialBodies : UnlockRequest(body)

SpecU == InitT /\ [][NextU]_vars

(***************************************************************************)
(* The damaged-database program: the server of the sequential program over *)
(* a database in which the row of a.x may not open under the key of its    *)
(* category: its ciphertext was altered after it was written, or it was    *)
(* sealed under the key of another vault or of another category.           *)
(***************************************************************************)
\* A row whose ciphertext was altered: the AEAD tag fits no key any more.
Altered(f) ==
    [f EXCEPT !.value = [sealedWith |-> [altered |-> f.value.sealedWith],
                         plaintext |-> f.value.plaintext]]

\* A row sealed under the subkey of vaultKey for category.
SealedUnder(f, vaultKey, category) ==
    [f EXCEPT !.value = EncryptToBase64(DeriveSubkey(vaultKey, InitSalt, category),
                                        f.value.plaintext)]

StoresD ==
    LET ax == Sealed(idAX, "v1", "standard", 1)
        rest == (idAY :> Sealed(idAY, "v2", "sensitive", 2)) @@
                (idBX :> Sealed(idBX, "v1", "critical", 1))
    IN  {(idAX :> x) @@ rest :
            x \in {ax, Altered(ax),
                   SealedUnder(ax, DeriveVaultKey(<<112>>, InitSecretKey, InitSalt), <<"a">>),
                   SealedUnder(ax, DeriveVaultKey(InitPassword, InitSecretKey, InitSalt),
                               <<"b">>)}}

InitD ==
    /\ vsession = 0
    /\ vsalt = <<>>
    /\ sess = [s \in Sessions |-> NoSession]
    /\ nsess = 0
    /\ meta = InitMeta(InitPassword, InitSecretKey, InitSalt)
    /\ dir = InitDir(InitSecretKey)
    /\ fields \in StoresD
    /\ tokens = (hashServiceToken(ServiceToken(1)) :>
                   [token |-> hashServiceToken(ServiceToken(1)), consumer |-> "app",
                    scope |-> <<"*">>, usage |-> "service",
                    expires_at |-> FormatRFC3339(DefaultTokenTTL), created_at |-> 0])
    /\ nsvc = 1
    /\ audit = <<>>
    /\ pc = [p \in Procs |-> "idle"]
    /\ loc = [p \in Procs |-> NoLoc]
    /\ resp = NoResp
    /\ served = 0
    /\ now = 0
    /\ unlockLimit = <<>>
    /\ hist = <<>>

SpecD == InitD /\ [][NextB]_vars

(***************************************************************************)
(* The serving process (cmd/pvault, cmdServe): it opens the vault, unlocks *)
(* it, starts the server and waits for SIGINT or SIGTERM; then it runs     *)
(* v.Lock(), srv.Stop(), and on its return the deferred v.Close().  hist   *)
(* holds the steps of that sequence the main goroutine has taken.  While   *)
(* the listener is open the server answers POST /vault/unlock and reads of *)
(* a field, each handler run as a whole; the timers of the sessions and    *)
(* their autoLock goroutines run beside them.                              *)
(***************************************************************************)
\* Vault.Close: Lock, then the database is closed.
Close(st) == Lock(st)

\* srv.Stop has not returned: the server still answers.
Listening == "Stop" \notin {hist[i] : i \in 1..Len(hist)}

\* The shutdown sequence has run to its end.
ShutdownFinished == hist = <<"Lock", "Stop", "Close">>

\* POST /vault/unlock, served as a whole while the server answers.
UnlockServed(body) ==
    /\ resp = NoResp
    /\ Listening
    /\ LET r == handleUnlock(St, unlockLimit, body)
       IN  /\ Within(r.st)
           /\ Commit(r.st)
           /\ unlockLimit' = r.attempts
           /\ resp' = Response("POST /vault/unlock",
                               [NoReq EXCEPT !.password = body.password,
                                             !.secretKeyHex = body.secret_key],
                               r.core,
                               [constraint |-> r.constraint,
                                res |-> [Result(r.constraint) EXCEPT !.token = r.token]])
    /\ UNCHANGED <<pc, loc, served, hist>>

\* GET /vault/fields/{id}, served as a whole while the server answers.
ReadServed(token, rq) ==
    /\ Listening
    /\ Request(token, "GET /vault/fields/{id}", rq)

\* A step of a session's timer or of its autoLock goroutine, while the process lives.
TimerStep ==
    /\ ~ShutdownFinished
    /\ \/ Tick
       \/ \E s \in Sessions : AutoLockZero(s)
       \/ \E s \in Sessions : AutoLockCallback(s)

\* cmdServe after <-sig: v.Lock().
ShutdownLock ==
    /\ resp = NoResp
    /\ hist = <<>>
    /\ Within(Lock(St))
    /\ Commit(Lock(St))
    /\ hist' = <<"Lock">>
    /\ UNCHANGED <<pc, loc, resp, served, unlockLimit>>

\* srv.Stop(context.Background()): the listener is closed and the handlers have returned.
ShutdownStop ==
    /\ resp = NoResp
    /\ hist = <<"Lock">>
    /\ hist' = <<"Lock", "Stop">>
    /\ UNCHANGED <<vsession, vsalt, sess, nsess, meta, dir, fields, tokens, nsvc, audit, pc, loc,
                   resp, served, now, unlockLimit>>

\* The deferred v.Close().
ShutdownClose ==
    /\ resp = NoResp
    /\ hist = <<"Lock", "Stop">>
    /\ Within(Close(St))
    /\ Commit(Close(St))
    /\ hist' = <<"Lock", "Stop", "Close">>
    /\ UNCHANGED <<pc, loc, resp, served, unlockLimit>>

\* The process when it starts to wait for the signal: the vault opened and unlocked.
InitS ==
    LET opened == [vsession |-> 0, vsalt |-> <<>>, sess |-> [s \in Sessions |-> NoSession],
                   nsess |-> 0, meta |-> InitMeta(InitPassword, InitSecretKey, InitSalt),
                   dir |-> InitDir(InitSecretKey),
                   fields |-> (idAX :> Sealed(idAX, "v1", "standard", 1)),
                   tokens |-> << >>, nsvc |-> 0, audit |-> <<>>, now |-> 0]
        unlocked == Unlock(opened, InitPassword, InitSecretKeyHex).st
    IN  /\ vsession = unlocked.vsession
        /\ vsalt = unlocked.vsalt
        /\ sess = unlocked.sess
        /\ nsess = unlocked.nsess
        /\ meta = unlocked.meta
        /\ dir = unlocked.dir
        /\ fields = unlocked.fields
        /\ tokens = unlocked.tokens
        /\ nsvc = unlocked.nsvc
        /\ audit = unlocked.audit
        /\ now = unlocked.now
        /\ pc = [p \in Procs |-> "idle"]
        /\ loc = [p \in Procs |-> NoLoc]
        /\ resp = NoResp
        /\ served = 0
        /\ unlockLimit = <<>>
        /\ hist = <<>>

NextS ==
    \/ \E body \in UnlockBodies : UnlockServed(body)
    \/ \E token \in {SessionToken(n) : n \in Sessions} :
          ReadServed(token, [NoRq EXCEPT !.id = idAX])
    \/ TimerStep
    \/ ShutdownLock
    \/ ShutdownStop
    \/ ShutdownClose
    \/ Deliver

SpecS == InitS /\ [][NextS]_vars

(***************************************************************************)
(* The init program: a vault directory that starts without a database, the *)
(* command that calls vault.Init on it, and a vault opened on it that is   *)
(* unlocked and locked.  vault.Open creates vault.db, with empty tables,   *)
(* when there is none.  hist holds the password and the returned secret    *)
(* key of every Init that succeeded.                                       *)
(***************************************************************************)
InitPasswords == {InitPassword, <<112>>}
GeneratedSecretKeys == {InitSecretKey, <<171, 2>>}

\* vault.Open on a directory without a database: store.Open creates it.
OpenCall ==
    /\ resp = NoResp
    /\ ~dir.db
    /\ Commit([St EXCEPT !.dir = [db |-> TRUE, secretKey |-> <<>>]])
    /\ resp' = NoResp
    /\ UNCHANGED <<pc, loc, served, unlockLimit, hist>>

\* vault.Init(dir, password), with the secret key and the salt it generates.
InitCall(password, sk, salt) ==
    /\ resp = NoResp
    /\ LET r == VaultInit(St, password, sk, salt)
       IN  /\ Commit(r.st)
           /\ resp' = Response("Init", [NoReq EXCEPT !.password = password,
                                                     !.secretKeyHex = r.secretKey],
                               TRUE, [constraint |-> r.err, res |-> Result(r.err)])
           /\ hist' = IF r.err = ErrNone
                      THEN Append(hist, [password |-> password, secretKey |-> r.secretKey])
                      ELSE hist
    /\ UNCHANGED <<pc, loc, served, unlockLimit>>

InitI ==
    /\ vsession = 0
    /\ vsalt = <<>>
    /\ sess = [s \in Sessions |-> NoSession]
    /\ nsess = 0
    /\ meta = NoMeta
    /\ dir = NoDir
    /\ fields = [h \in {} |-> {}]
    /\ tokens = [h \in {} |-> {}]
    /\ nsvc = 0
    /\ audit = <<>>
    /\ pc = [p \in Procs |-> "idle"]
    /\ loc = [p \in Procs |-> NoLoc]
    /\ resp = NoResp
    /\ served = 0
    /\ now = 0
    /\ unlockLimit = <<>>
    /\ hist = <<>>

NextI ==
    \/ OpenCall
    \/ \E password \in InitPasswords, sk \in GeneratedSecretKeys : InitCall(password, sk, InitSalt)
    \/ \E password \in InitPasswords, sk \in GeneratedSecretKeys :
          dir.db /\ UnlockCall(1, password, HexEncodeToString(sk) \o <<"\n">>)
    \/ dir.db /\ LockCall(1)
    \/ Deliver

SpecI == InitI /\ [][NextI]_vars

(***************************************************************************)
(* The scope program: ScopeAllows and ScopeAllowsCategory called with the  *)
(* empty scope and with a category pattern, on every string of up to       *)
(* MaxLen characters of the scope grammar as identifier or category.  hist *)
(* holds the call made and what it returned.                               *)
(***************************************************************************)
ScopeChars == {"a", ".", "*", ",", " "}
ScopeStrings == UNION {[1..k -> ScopeChars] : k \in 0..MaxLen}
ScopesP == {<<>>, <<"a", ".", "*">>}

ScopeCall(scope, fieldID) ==
    /\ hist = <<>>
    /\ hist' = <<[call |-> "ScopeAllows", scope |-> scope, arg |-> fieldID,
                  allowed |-> ScopeAllows(scope, fieldID)]>>
    /\ UNCHANGED <<vsession, vsalt, sess, nsess, meta, dir, fields, tokens, nsvc, audit, pc, loc,
                   resp, served, now, unlockLimit>>

ScopeCategoryCall(scope, category) ==
    /\ hist = <<>>
    /\ hist' = <<[call |-> "ScopeAllowsCategory", scope |-> scope, arg |-> category,
                  allowed |-> ScopeAllowsCategory(scope, category)]>>
    /\ UNCHANGED <<vsession, vsalt, sess, nsess, meta, dir, fields, tokens, nsvc, audit, pc, loc,
                   resp, served, now, unlockLimit>>

NextP ==
    \/ \E scope \in ScopesP, fieldID \in ScopeStrings : ScopeCall(scope, fieldID)
    \/ \E scope \in ScopesP, category \in ScopeStrings : ScopeCategoryCall(scope, category)

SpecP == InitT /\ [][NextP]_vars

(***************************************************************************)
(* The scope evaluators on whole scope strings: ScopeAllows on a valid     *)
(* field id, and the two evaluations handleGetByCategory makes for one     *)
(* category (ScopeAllowsCategory on the category, then ScopeAllows on      *)
(* each field of the category).                                            *)
(***************************************************************************)
CategoriesG == {<<"a">>, <<"a", "a">>}
NamesG == UNION {[1..k -> {"a"}] : k \in 1..MaxLen}
IdsG == {c \o <<".">> \o n : c \in CategoriesG, n \in NamesG}
ScopesG ==
    ScopeStrings \cup
       { <<"a", ".", "*", ",", "a", "a", ".", "a">>,
         <<" ", "a", "a", ".", "*", " ", ",", "a", ".", "a", "a">>,
         <<"a", ".", "a", ",", " ", "*">>,
         <<"a", "a", ".", "*">> }

\* handleGetByCategory, lines 195-211: the category check, and the fields of the
\* category that the filter loop keeps (every stored id is a valid id of the category).
CategoryFilterCall(scope, category) ==
    /\ hist = <<>>
    /\ hist' = <<[call |-> "handleGetByCategory", scope |-> scope, arg |-> category,
                  allowed |-> ScopeAllowsCategory(scope, category),
                  kept |-> {id \in IdsG : /\ Category(id) = category
                                          /\ ScopeAllows(scope, id)}]>>
    /\ UNCHANGED <<vsession, vsalt, sess, nsess, meta, dir, fields, tokens, nsvc, audit, pc, loc,
                   resp, served, now, unlockLimit>>

NextG ==
    \/ \E scope \in ScopesG, fieldID \in IdsG : ScopeCall(scope, fieldID)
    \/ \E scope \in ScopesG, category \in CategoriesG : CategoryFilterCall(scope, category)

SpecG == InitT /\ [][NextG]_vars

(***************************************************************************)
(* The authentication program: the protected routes called with any        *)
(* Authorization header while the idle timer runs and service tokens       *)
(* expire.  A header is the text before the token and the token; a request *)
(* without the header has neither.                                         *)
(***************************************************************************)
BearerScheme == "Bearer "

Header(scheme, token) == [scheme |-> scheme, token |-> token]

\* authMiddleware that refreshes the idle timer before it looks at the header.
authMiddlewareTouchFirst(st, auth, route, rq) ==
    IF auth.scheme # BearerScheme
    THEN [st |-> TouchSession(st),
          resp |-> Response("/", [NoReq EXCEPT !.auth = "none"], FALSE,
                            [constraint |-> "unauthenticated", res |-> Result(ErrNone)])]
    ELSE LET r == ServeAny(st, auth.token, route, rq)
         IN  IF r.resp.call = "/" THEN [r EXCEPT !.st = TouchSession(st)] ELSE r

\* authMiddleware and what it calls: strings.HasPrefix(auth, "Bearer "), then the token
\* after the prefix against the session and against the service tokens.
authMiddleware(st, auth, route, rq) ==
    IF auth.scheme # BearerScheme
    THEN [st |-> st,
          resp |-> Response("/", [NoReq EXCEPT !.auth = "none"], FALSE,
                            [constraint |-> "unauthenticated", res |-> Result(ErrNone)])]
    ELSE ServeAny(st, auth.token, route, rq)

HeaderRequest(auth, route, rq) ==
    /\ resp = NoResp
    /\ LET r == authMiddleware(St, auth, route, rq)
       IN  /\ WithinT(r.st)
           /\ Commit(r.st)
           /\ resp' = [r.resp EXCEPT !.req.scheme = auth.scheme, !.req.bearer = auth.token]
    /\ UNCHANGED <<pc, loc, served, unlockLimit, hist>>

\* Session.autoLock of session s with no handler in the way: it zeroes the key and
\* calls lockFn.
AutoLock(s) ==
    /\ resp = NoResp
    /\ sess[s].firing > 0
    /\ Commit(lockFnDone([St EXCEPT !.sess[s] = autoLockCritical(@)], s))
    /\ resp' = NoResp
    /\ UNCHANGED <<pc, loc, served, unlockLimit, hist>>

HeadersA ==
    {Header(BearerScheme, t) : t \in {SessionToken(1), SessionToken(2), ServiceToken(1),
                                      ServiceToken(2), GarbageToken, EmptyToken}}
       \cup {Header("", EmptyToken), Header("", SessionToken(1)), Header("", ServiceToken(1)),
             Header("Basic ", SessionToken(1)), Header("bearer ", ServiceToken(1)),
             Header("Bearer", SessionToken(1))}

RoutesA == {"POST /vault/tokens/service", "GET /vault/fields/{id}", "PUT /vault/fields/{id}"}

InputsH ==
    [ids |-> {idAX}, cats |-> {<<"a">>}, values |-> {"v2"}, tiers |-> {""},
     consumers |-> {"app"}, scopes |-> {<<"a", ".", "*">>}, tokens |-> {ServiceToken(1)},
     ttls |-> {NoTTL, TTLOf(1)}, limits |-> {0}]

NextA ==
    \/ UnlockCall(1, InitPassword, InitSecretKeyHex)
    \/ LockCall(1)
    \/ \E auth \in HeadersA, route \in RoutesA : \E rq \in Requests(route, InputsH) :
          HeaderRequest(auth, route, rq)
    \/ Tick
    \/ \E s \in Sessions : AutoLock(s)
    \/ Advance
    \/ Deliver

SpecA == InitT /\ [][NextA]_vars

(***************************************************************************)
(* The burst program: a client that keeps posting a wrong password to      *)
(* /vault/unlock while time passes.  hist records every request as in the  *)
(* limiter program.                                                        *)
(***************************************************************************)
\* One POST /vault/unlock of the burst, from its arrival to its answer.
UnlockAttempt(body) ==
    /\ Len(hist) < MaxBurst
    /\ LET r == handleUnlock(St, unlockLimit, body)
       IN  /\ Commit(r.st)
           /\ unlockLimit' = r.attempts
           /\ hist' = Append(hist, [at |-> now, body |-> body, constraint |-> r.constraint,
                                    core |-> r.core, token |-> r.token])
    /\ UNCHANGED <<pc, loc, resp, served>>

NextL ==
    \/ UnlockAttempt(WrongPasswordBody)
    \/ Advance

SpecL == InitT /\ [][NextL]_vars

(***************************************************************************)
(* The properties of the program.                                          *)
(***************************************************************************)
\* The entries a step appended to the audit log.
Appended == {audit'[i] : i \in (Len(audit) + 1)..Len(audit')}

\* The step appended nothing to the audit log but the api_access entry of the
\* middleware.
OnlyApiAccess ==
    /\ Len(audit') >= Len(audit)
    /\ SubSeq(audit', 1, Len(audit)) = audit
    /\ \A e \in Appended : e.action = "api_access"

\* The scope of a response's request is the one its bearer token carries.
ScopeOfBearer(req) ==
    IF req.auth = "service" THEN req.scope \in {tokens[h].scope : h \in DOMAIN tokens}
    ELSE req.scope = Star

\* C1: while the vault has no live session, every privileged core method, and every
\* route that calls one, fails with the locked error (vault_locked over HTTP) and
\* leaves the field table and the token table as they were.
C1_LockedVaultRefuses ==
    [][(/\ vsession = 0 \/ ~sess[vsession].hasKey
        /\ resp'.core
        /\ resp'.call \in PrivilegedOps \cup CoreCalls(TRUE)
        /\ resp'.call = "Set" => ValidateFieldID(resp'.req.rq.id))
       => /\ resp'.constraint = IF resp'.call \in Routes THEN "vault_locked" ELSE ErrLocked
          /\ resp'.res = Result(ErrLocked)
          /\ fields' = fields
          /\ tokens' = tokens]_vars

\* A DELETE of a stored field is answered vault_locked after the only session expired.
C1_LockedAfterExpiry ==
    /\ nsess = 1
    /\ vsession = 0
    /\ \A i \in 1..Len(audit) : audit[i].action # "lock"
    /\ resp.call = "DELETE /vault/fields/{id}"
    /\ resp.core
    /\ resp.constraint = "vault_locked"
    /\ resp.req.rq.id \in DOMAIN fields

\* Session s is gone: its key buffer is zeroed and released, its token validates
\* neither at the session nor at the vault.
Gone(s) ==
    /\ sess[s].created
    /\ ~sess[s].hasKey
    /\ sess[s].buf = Zero
    /\ SessionVaultKey(sess[s]) = NilKey
    /\ ~SessionValidateToken(sess[s], SessionToken(s))
    /\ ~ValidateToken(St, SessionToken(s))

\* C2: once Lock has returned for a session, or the autoLock its idle timer started
\* has run, the session's key buffer is all zeros and released (VaultKey returns nil)
\* and its token no longer validates; after Lock no bearer validates; and a session
\* that is gone stays gone.
C2_KeyGoneAfterLock ==
    [][\A s \in Sessions :
          /\ (vsession = s /\ resp'.core /\ resp'.call \in {"Lock", "POST /vault/lock"})
                => Gone(s)' /\ \A t \in Bearers : ~ValidateToken(St', t)
          /\ sess'[s].firing < sess[s].firing => Gone(s)'
          /\ Gone(s) => Gone(s)']_vars

\* The autoLock of session 1 has zeroed its key and is about to call lockFn, while
\* the vault still refers to the session.
C2_AutoLockedSession ==
    /\ vsession = 1
    /\ sess[1].locking > 0
    /\ Gone(1)

\* C3 (as stated): in every reachable state the vault refers to a session if and only
\* if a session holds a master key, the session the vault refers to.
C3_SessionIffKey ==
    /\ vsession # 0 => sess[vsession].hasKey
    /\ (\E s \in Sessions : sess[s].hasKey) => vsession # 0

\* Status reports locked = false while no session holds a key.
C3_StatusUnlockedWithoutKey ==
    /\ resp.call = "Status"
    /\ ~resp.res.locked
    /\ \A s \in Sessions : ~sess[s].hasKey

\* C4: for a syntactically valid id and the scope of the bearer, a single-field route
\* answers scope_exceeded if and only if ScopeAllows(scope, id) is false, and then
\* the core method is not called: no field is read, written or deleted.
C4_ScopeGate ==
    [][(resp'.call \in FieldRoutes /\ ValidateFieldID(resp'.req.rq.id))
       => /\ ScopeOfBearer(resp'.req)
          /\ resp'.constraint = "scope_exceeded"
                <=> ~ScopeAllows(resp'.req.scope, resp'.req.rq.id)
          /\ resp'.constraint = "scope_exceeded"
                => /\ ~resp'.core
                   /\ resp'.res = Result(ErrNone)
                   /\ fields' = fields
                   /\ OnlyApiAccess]_vars

\* A DELETE of the stored a.y under scope a.x is answered scope_exceeded on an
\* unlocked vault.
C4_DeleteOutOfScope ==
    /\ resp.call = "DELETE /vault/fields/{id}"
    /\ resp.constraint = "scope_exceeded"
    /\ resp.req.scope = idAX
    /\ resp.req.rq.id = idAY
    /\ idAY \in DOMAIN fields
    /\ vsession # 0

\* What of a session a request must not change: whether it exists, its key, its token.
KeyAndToken(se) == <<se.created, se.hasKey, se.buf, se.token>>

\* C5: a request authenticated with a service token, whatever its scope, is answered
\* session_required on the session-only routes; the handler calls no core method, the
\* vault's session, its key and token, the token table and the field table are as
\* before, and the response carries no audit entries, tokens or token value.
C5_ServiceTokenNeedsSession ==
    [][(resp'.req.auth = "service" /\ resp'.call \in SessionRoutes)
       => /\ resp'.constraint = "session_required"
          /\ ~resp'.core
          /\ resp'.res = Result(ErrNone)
          /\ vsession' = vsession
          /\ nsess' = nsess
          /\ \A s \in Sessions : KeyAndToken(sess'[s]) = KeyAndToken(sess[s])
          /\ tokens' = tokens
          /\ nsvc' = nsvc
          /\ fields' = fields
          /\ OnlyApiAccess]_vars

\* A service token of scope * asked for POST /vault/lock on an unlocked vault, which
\* stays unlocked.
C5_LockWithServiceToken ==
    /\ resp.call = "POST /vault/lock"
    /\ resp.req.auth = "service"
    /\ resp.req.scope = Star
    /\ resp.constraint = "session_required"
    /\ vsession # 0
    /\ sess[vsession].hasKey

\* The stored fields a scope allows, and what a list of rows says of them.
Allowed(scope) == {id \in DOMAIN fields : ScopeAllows(scope, id)}

Ids(rows) == {rows[i].id : i \in 1..Len(rows)}

\* Each row is a stored field, once, with its metadata; with its plaintext if opened.
RowsOfStore(rows, opened) ==
    /\ Cardinality(Ids(rows)) = Len(rows)
    /\ \A i \in 1..Len(rows) :
          /\ rows[i].id \in DOMAIN fields
          /\ rows[i].category = fields[rows[i].id].category
          /\ rows[i].field_name = fields[rows[i].id].field_name
          /\ rows[i].sensitivity = fields[rows[i].id].sensitivity
          /\ rows[i].version = fields[rows[i].id].version
          /\ rows[i].value = IF opened THEN fields[rows[i].id].value.plaintext ELSE ""

\* C6: for every scope and store content, a successful GET /vault/fields, GET
\* /vault/fields/category/{cat} or GET /vault/context returns exactly the stored
\* fields (of the category) that ScopeAllows admits, each once; the bundle has no
\* category without fields; and the category route refuses a scope only when the
\* scope admits no stored field of the category.
C6_ExactlyAllowed ==
    LET scope == resp.req.scope
        ofCategory == {id \in Allowed(scope) : fields[id].category = resp.req.rq.category}
        bundle == resp.res.bundle
    IN  /\ (resp.call = "GET /vault/fields" /\ resp.constraint = "ok")
              => Ids(resp.res.rows) = Allowed(scope) /\ RowsOfStore(resp.res.rows, FALSE)
        /\ (resp.call = "GET /vault/fields/category/{category}" /\ resp.constraint = "ok")
              => Ids(resp.res.rows) = ofCategory /\ RowsOfStore(resp.res.rows, TRUE)
        /\ (resp.call = "GET /vault/fields/category/{category}"
              /\ resp.constraint = "scope_exceeded")
              => ofCategory = {}
        /\ (resp.call = "GET /vault/context" /\ resp.constraint = "ok")
              => /\ UNION {Ids(bundle[c]) : c \in DOMAIN bundle} = Allowed(scope)
                 /\ \A c \in DOMAIN bundle :
                       /\ bundle[c] # <<>>
                       /\ RowsOfStore(bundle[c], TRUE)
                       /\ \A i \in 1..Len(bundle[c]) : bundle[c][i].category = c

\* GET /vault/context under scope a.x over a store of a.x, a.y and b.x: the bundle
\* has the one category a.
C6_ContextOfOneField ==
    /\ resp.call = "GET /vault/context"
    /\ resp.constraint = "ok"
    /\ resp.req.scope = idAX
    /\ DOMAIN fields = {idAX, idAY, idBX}
    /\ DOMAIN resp.res.bundle = {<<"a">>}

\* The secret key as Unlock reads it, and a pair of credentials that differs from the
\* pair fixed at Init: another password, other key bytes, or no key bytes at all.
DecodedSecretKey(secretKeyHex) == HexDecodeString(TrimSpace(secretKeyHex))

Differs(password, secretKeyHex) ==
    \/ password # InitPassword
    \/ DecodedSecretKey(secretKeyHex).err
    \/ DecodedSecretKey(secretKeyHex).bytes # InitSecretKey

\* The step left the vault locked: no session, no audit entry, Status reports locked.
StaysLocked ==
    /\ vsession' = 0
    /\ nsess' = nsess
    /\ sess' = sess
    /\ audit' = audit
    /\ StatusLocked(St')
    /\ resp'.res.token = EmptyToken

\* C7 (as stated): an Unlock of the locked vault with a password or secret key that
\* differs from the pair fixed at Init returns wrong_password (unauthenticated over
\* HTTP), creates no session, appends no unlock entry, and leaves Status locked.
C7_WrongPairIsWrongPassword ==
    [][(resp'.call = "Unlock" /\ vsession = 0
            /\ Differs(resp'.req.password, resp'.req.secretKeyHex))
       => /\ resp'.constraint = ErrWrongPassword
          /\ UnlockConstraint(resp'.constraint) = "unauthenticated"
          /\ StaysLocked]_vars

\* C7 (amended): such an Unlock never unlocks; it returns wrong_password
\* (unauthenticated) when the secret key decodes from hexadecimal, and the decode
\* error (internal over HTTP) when it does not.
C7_WrongPairNeverUnlocks ==
    [][(resp'.call = "Unlock" /\ vsession = 0
            /\ Differs(resp'.req.password, resp'.req.secretKeyHex))
       => /\ resp'.constraint =
                IF DecodedSecretKey(resp'.req.secretKeyHex).err
                THEN ErrDecodeSecretKey ELSE ErrWrongPassword
          /\ UnlockConstraint(resp'.constraint) =
                IF DecodedSecretKey(resp'.req.secretKeyHex).err
                THEN "internal" ELSE "unauthenticated"
          /\ StaysLocked]_vars

\* The right secret key with a wrong password was answered wrong_password on a vault
\* never unlocked.
C7_WrongPasswordRefused ==
    /\ resp.call = "Unlock"
    /\ resp.req.password # InitPassword
    /\ resp.req.secretKeyHex = InitSecretKeyHex
    /\ resp.constraint = ErrWrongPassword
    /\ vsession = 0
    /\ nsess = 0
    /\ audit = <<>>

\* C8: Unlock on a vault that has a session fails with already_unlocked (conflict
\* over HTTP) whatever the credentials, issues no token, writes no audit entry and
\* leaves the sessions as they are: a bearer validates after it if and only if it
\* did before.
C8_SecondUnlockRefused ==
    [][(resp'.call = "Unlock" /\ vsession # 0)
       => /\ resp'.constraint = ErrAlreadyUnlocked
          /\ UnlockConstraint(resp'.constraint) = "conflict"
          /\ resp'.res.token = EmptyToken
          /\ vsession' = vsession
          /\ sess' = sess
          /\ nsess' = nsess
          /\ audit' = audit
          /\ \A t \in Bearers : ValidateToken(St', t) <=> ValidateToken(St, t)]_vars

\* An Unlock with a wrong password was answered already_unlocked, and the token of
\* the session validates.
C8_UnlockWhileUnlocked ==
    /\ resp.call = "Unlock"
    /\ resp.constraint = ErrAlreadyUnlocked
    /\ resp.req.password # InitPassword
    /\ vsession = 1
    /\ ValidateToken(St, SessionToken(1))

\* Session s has been idle for the TTL; the vault is locked and session s is gone.
IdleOut(s) == sess[s].hasKey /\ sess[s].idle = TTL

AutoLocked(s) ==
    /\ Gone(s)
    /\ sess[s].token = EmptyToken
    /\ vsession = 0
    /\ requireUnlockedTouch(St).err = ErrLocked

\* C9: when a live session has not been touched for the TTL its idle timer has
\* fired, and the vault eventually is locked: the key zeroed, the token cleared,
\* v.session nil, requireUnlocked answering locked.
C9_IdleSessionLocks ==
    /\ [](\A s \in Sessions : IdleOut(s) => sess[s].firing > 0)
    /\ \A s \in Sessions : IdleOut(s) ~> AutoLocked(s)

\* The only session was locked by its timer, with no Lock: autoLock has run to its end.
C9_AutoLockCompleted ==
    /\ nsess = 1
    /\ AutoLocked(1)
    /\ sess[1].firing + sess[1].locking + sess[1].waiting = 0
    /\ \A i \in 1..Len(audit) : audit[i].action # "lock"

\* Handler p touches the session on this step: authMiddleware's TouchSession, or
\* the Touch of requireUnlocked.
Touches(p) ==
    \/ pc[p] = "touch" /\ pc'[p] # "touch"
    \/ pc[p] = "enter" /\ pc'[p] = "key"

\* C10 (as stated): a Touch of a live session sets its idle deadline to the full
\* TTL, and autoLock takes the key of a session only when the TTL has passed since
\* the session's last Touch.
C10_NoAutoLockWithinTTL ==
    [][\A s \in Sessions :
          /\ (vsession = s /\ sess[s].hasKey /\ \E p \in Procs : Touches(p))
                => sess'[s].armed /\ sess'[s].remaining = TTL /\ sess'[s].idle = 0
          /\ (sess[s].hasKey /\ sess'[s].firing < sess[s].firing)
                => sess[s].idle = TTL]_vars

\* The raw service tokens issued so far.
Issued == 1..nsvc

\* The record of the n-th service token is in the table and its expiry time, as the
\* table holds it, has not passed.
RecordLive(st, n) ==
    /\ hashServiceToken(ServiceToken(n)) \in DOMAIN st.tokens
    /\ ~After(st.now, ParseRFC3339(st.tokens[hashServiceToken(ServiceToken(n))].expires_at))

Validates(st, n) == ValidateServiceToken(st, ServiceToken(n)).found

\* The step answered a request to create a service token with a token.
Created ==
    /\ resp'.call = "POST /vault/tokens/service"
    /\ resp'.constraint = "ok"

\* C11: the raw token CreateServiceToken returned validates, with the consumer and the
\* scope it was created with, exactly while its record is in the table and the
\* record's expiry time has not passed; once a revocation of it has returned count 1
\* or it has ceased to validate it never validates again, and a request that carries
\* it then is answered unauthenticated and changes nothing.
C11_ValidWhileRecordLive ==
    [][/\ \A n \in 1..MaxTokens :
             /\ Validates(St', n) <=> (n \in Issued' /\ RecordLive(St', n))
             /\ (n \in Issued /\ ~Validates(St, n)) => ~Validates(St', n)
             /\ (Validates(St, n) /\ Validates(St', n))
                   => ValidateServiceToken(St', ServiceToken(n)).row
                         = ValidateServiceToken(St, ServiceToken(n)).row
       /\ Created
             => /\ resp'.res.token = ServiceToken(nsvc')
                /\ nsvc' = nsvc + 1
                /\ hashServiceToken(resp'.res.token) \in DOMAIN tokens'
                /\ LET row == tokens'[hashServiceToken(resp'.res.token)]
                   IN  /\ row.consumer = resp'.req.rq.consumer
                       /\ row.scope = CoreArgs(resp'.call, resp'.req.rq).scope
                       /\ row.expires_at
                             = FormatRFC3339(now + CoreArgs(resp'.call, resp'.req.rq).ttl.d)
                       /\ Validates(St', nsvc')
                             => ValidateServiceToken(St', resp'.res.token).row = row
                /\ Validates(St', nsvc') <=> RecordLive(St', nsvc')
       /\ (resp'.call = "DELETE /vault/tokens/service/{token}" /\ resp'.res.n = 1)
             => \E n \in Issued :
                   /\ resp'.req.rq.token = ServiceToken(n)
                   /\ hashServiceToken(ServiceToken(n)) \in DOMAIN tokens
                   /\ ~Validates(St', n)
       /\ \A n \in Issued :
             (resp'.req.bearer = ServiceToken(n) /\ ~Validates(St, n))
                => /\ resp'.constraint = "unauthenticated"
                   /\ ~resp'.core
                   /\ UNCHANGED <<vsession, sess, fields, tokens, nsvc, audit>>]_vars

\* A request that carries the first service token is answered unauthenticated after
\* the token has been revoked.
C11_RevokedTokenRefused ==
    /\ nsvc >= 1
    /\ hashServiceToken(ServiceToken(1)) \notin DOMAIN tokens
    /\ resp.req.bearer = ServiceToken(1)
    /\ resp.constraint = "unauthenticated"
    /\ \E i \in 1..Len(audit) : audit[i].action = "revoke_service_token"
    /\ \E i \in 1..Len(audit) : audit[i].action = "api_access"

\* Every raw service token the vault can issue within the bounds.
RawTokens == {ServiceToken(n) : n \in 1..MaxTokens}

\* C12: in every reachable state the token table holds, for each row, the SHA-256
\* hash of an issued raw token and never the raw token; the other columns of the
\* token table and the rows of the audit log hold the consumer and scope of the
\* requests and the vault's own constants; and a response carries a raw token only
\* when it answers the create call that generated that token.
C12_OnlyHashStored ==
    /\ \A h \in DOMAIN tokens :
          /\ tokens[h].token = h
          /\ h \notin RawTokens
          /\ \E n \in Issued : h = [sha256 |-> ServiceToken(n)]
          /\ tokens[h].consumer \in InputsT.consumers
          /\ tokens[h].scope \in InputsT.scopes \cup {Star}
    /\ \A i \in 1..Len(audit) :
          /\ audit[i].consumer \in InputsT.consumers \cup {"vault"}
          /\ audit[i].scope \in InputsT.scopes \cup InputsT.ids \cup {Star}
          /\ audit[i].purpose \in InputsT.consumers \cup {""}
    /\ resp.res.token \in RawTokens
          => /\ resp.call = "POST /vault/tokens/service"
             /\ resp.constraint = "ok"
             /\ resp.res.token = ServiceToken(nsvc)
    /\ \A t \in resp.res.tokens : t.token_prefix \notin RawTokens
    /\ (resp.call = "POST /vault/tokens/service" /\ resp.constraint = "ok")
          => resp.res.token = ServiceToken(nsvc)

\* The second service token has been created and returned: the table holds the hashes
\* of both tokens, and the audit log the two creations.
C12_SecondTokenIssued ==
    /\ resp.call = "POST /vault/tokens/service"
    /\ resp.res.token = ServiceToken(2)
    /\ DOMAIN tokens = {hashServiceToken(ServiceToken(1)), hashServiceToken(ServiceToken(2))}
    /\ Cardinality({i \in 1..Len(audit) : audit[i].action = "create_service_token"}) = 2

\* The unlock requests that came in the window of UnlockWindow ticks starting at a.
InWindow(a) == {i \in DOMAIN hist' : hist'[i].at \in a..(a + UnlockWindow - 1)}

\* The earlier requests the limiter let through that came less than a window ago.
RecentAttempts ==
    {i \in DOMAIN hist : hist[i].constraint # "rate_limited" /\ hist[i].at > now - UnlockWindow}

\* C13: among the unlock requests received within any window at most 5 are let through
\* by the limiter, so at most 5 reach Vault.Unlock; a request that comes when 5 were let
\* through less than a window ago is answered rate_limited whatever its body, without a
\* call of Vault.Unlock, without a token and with the vault state unchanged; and no
\* other request is answered rate_limited.
C13_UnlockRateLimited ==
    [][/\ \A a \in (0 - UnlockWindow)..MaxNow :
             /\ Cardinality({i \in InWindow(a) : hist'[i].constraint # "rate_limited"})
                   <= unlockLimitMax
             /\ Cardinality({i \in InWindow(a) : hist'[i].core}) <= unlockLimitMax
       /\ hist' # hist =>
             LET e == hist'[Len(hist')] IN
             /\ hist' = Append(hist, e)
             /\ e.at = now
             /\ e.constraint = "rate_limited" <=> Cardinality(RecentAttempts) >= unlockLimitMax
             /\ e.constraint = "rate_limited" =>
                   /\ ~e.core
                   /\ e.token = EmptyToken
                   /\ UNCHANGED <<vsession, vsalt, sess, nsess, meta, dir, fields, tokens, nsvc,
                                  audit, now>>
             /\ e.core <=> e.constraint \in {"ok", "unauthenticated", "conflict"}]_vars

\* Five attempts with a wrong password, and a sixth within the window, with the right
\* credentials, that the limiter refuses: the vault stays locked.
C13_SixthAttemptLimited ==
    /\ Len(hist) = 6
    /\ \A i \in 1..5 : hist[i].constraint = "unauthenticated"
    /\ hist[6].constraint = "rate_limited"
    /\ hist[6].body.password = InitPassword
    /\ hist[6].at < hist[1].at + UnlockWindow
    /\ vsession = 0

\* The field operations of the concurrent program that encrypt or decrypt.
FieldOps == {"Get", "Set", "GET /vault/fields/{id}", "PUT /vault/fields/{id}"}

\* The step completes a field operation that stored a new ciphertext or returned a
\* decrypted value.
SealsOrOpens ==
    /\ resp' # NoResp
    /\ resp' # resp
    /\ resp'.call \in FieldOps
    /\ resp'.core
    /\ fields' # fields \/ resp'.res.rows # <<>>

\* C14: with the master key absent no ciphertext is produced or read: a field operation
\* stores a ciphertext or returns a plaintext only in a step taken while the vault has
\* a session that holds its key, never after a Lock or an auto-lock has completed.
C14_NoFieldOpAfterLock ==
    [][SealsOrOpens => (vsession # 0 /\ sess[vsession].hasKey)]_vars

\* Lock has returned, the vault has no session and the session's key is zeroed, and a
\* Get that had taken its copy of the key before the lock has just decrypted and
\* returned a value, logging its read after the lock.
C14_ReadAfterLock ==
    /\ vsession = 0
    /\ \A s \in Sessions : ~sess[s].hasKey
    /\ resp.call = "Get"
    /\ resp.res.rows # <<>>
    /\ Len(audit) >= 2
    /\ audit[Len(audit) - 1].action = "lock"
    /\ audit[Len(audit)].action = "read"


\* C15: every copy of the master key handed out by requireUnlocked, and every category
\* subkey derived from it, is zero-filled before the operation returns: the key buffers
\* a completed call leaves behind hold zeros only.
C15_KeyCopiesZeroed ==
    \A k \in resp.res.keys : k = Zero

\* A Get has returned the value of a stored field and left behind, not zeroed, its copy
\* of the session's master key and the subkey of the field's category.
C15_GetLeavesKeys ==
    /\ resp.call = "Get"
    /\ resp.res.rows # <<>>
    /\ vsession # 0
    /\ SessionVaultKey(sess[vsession]) \in resp.res.keys
    /\ DeriveSubkey(SessionVaultKey(sess[vsession]), vsalt, <<"a">>) \in resp.res.keys
    /\ Zero \notin resp.res.keys


\* The call recorded at position i of hist: its method, its arguments, its result.
CallAt(i) == hist[i].resp
Succeeded(i) == CallAt(i).constraint = ErrNone

\* The call at i is a successful write to field id.
WritesTo(i, id) ==
    /\ CallAt(i).call \in {"Set", "Delete", "SetSensitivity"}
    /\ CallAt(i).req.rq.id = id
    /\ Succeeded(i)

\* The Get at n follows the successful Set at j on the same id, with no write to that id
\* in between.
SetThenGet(j, n) ==
    /\ j < n
    /\ CallAt(j).call = "Set"
    /\ Succeeded(j)
    /\ CallAt(n).call = "Get"
    /\ CallAt(n).req.rq.id = CallAt(j).req.rq.id
    /\ \A k \in (j + 1)..(n - 1) : ~WritesTo(k, CallAt(j).req.rq.id)

\* C16: a Get(id) that follows a successful Set(id, v, t) with no write to id in between
\* returns one row: id, value v, the category that is the prefix of id, and sensitivity
\* t, or standard if t was empty, whether the Set created the field or updated it.
C16_SetGetRoundTrip ==
    \A j, n \in DOMAIN hist :
       SetThenGet(j, n) =>
          LET set == CallAt(j).req.rq
              got == CallAt(n).res
          IN  /\ Succeeded(n)
              /\ Len(got.rows) = 1
              /\ got.rows[1].id = set.id
              /\ got.rows[1].value = set.value
              /\ got.rows[1].category = SubSeq(set.id, 1, Index(set.id, ".") - 1)
              /\ got.rows[1].sensitivity = IF set.tier = "" THEN "standard" ELSE set.tier

\* The stored field a.x is updated by a Set with value v2 and no tier, another
\* field is created, and a Get of a.x returns v2 with sensitivity standard.
C16_UpdateThenGet ==
    /\ Len(hist) = 3
    /\ SetThenGet(1, 3)
    /\ CallAt(1).req.rq = [NoRq EXCEPT !.id = idAX, !.value = "v2"]
    /\ CallAt(2).call = "Set"
    /\ CallAt(2).req.rq.id = idAY
    /\ Succeeded(2)
    /\ CallAt(3).res.rows[1].value = "v2"
    /\ CallAt(3).res.rows[1].version = 2


\* The version of field id in the table, 0 when there is no such row.
VersionOf(table, id) == IF id \in DOMAIN table THEN table[id].version ELSE 0

\* C17: a successful Set leaves its field at version 1 if it created the row and at the
\* old version plus 1 otherwise; it leaves the rows of the other ids as they were; a
\* call that fails, and every step that is not a call, leaves the field table as it was.
C17_VersionCountsSets ==
    [][IF hist' # hist
       THEN LET e == hist'[Len(hist')].resp
                id == e.req.rq.id
            IN  /\ hist' = Append(hist, hist'[Len(hist')])
                /\ e.constraint # ErrNone => fields' = fields
                /\ \A other \in (DOMAIN fields \cup DOMAIN fields') \ {id} :
                      /\ other \in DOMAIN fields
                      /\ other \in DOMAIN fields'
                      /\ fields'[other] = fields[other]
                /\ (e.call = "Set" /\ e.constraint = ErrNone) =>
                      /\ id \in DOMAIN fields'
                      /\ fields'[id].version = VersionOf(fields, id) + 1
                /\ (e.call \in {"Get", "SetSensitivity"} /\ e.constraint = ErrNone) =>
                      VersionOf(fields', id) = VersionOf(fields, id)
       ELSE fields' = fields]_vars

\* Two Sets of a new field have succeeded: the Get after them returns version 2, and the
\* stored field a.x is still at version 1.
C17_TwoSetsVersionTwo ==
    /\ Len(hist) = 3
    /\ \A i \in 1..2 : hist[i].resp.call = "Set" /\ hist[i].resp.req.rq.id = idAY
                          /\ hist[i].resp.constraint = ErrNone
    /\ hist[3].resp.call = "Get"
    /\ hist[3].resp.res.rows # <<>>
    /\ hist[3].resp.res.rows[1].id = idAY
    /\ hist[3].resp.res.rows[1].version = 2
    /\ fields[idAX].version = 1


\* The calls at i and j are two calls in a row of one client.
InARow(i, j) ==
    /\ i < j
    /\ hist[i].client = hist[j].client
    /\ \A m \in (i + 1)..(j - 1) : hist[m].client # hist[i].client

\* The call at i is a Get of field id that returned the row.
ReadsVersion(i, id) ==
    /\ CallAt(i).call = "Get"
    /\ CallAt(i).req.rq.id = id
    /\ CallAt(i).res.rows # <<>>

\* C18: whatever the other handlers do in between, when a client reads a field's
\* version, then sets the field successfully, then reads the version again, the second
\* version is greater than or equal to the first.
C18_VersionNotLowerAfterSet ==
    \A i, j, k \in DOMAIN hist :
       (/\ InARow(i, j)
        /\ InARow(j, k)
        /\ CallAt(j).call = "Set"
        /\ Succeeded(j)
        /\ ReadsVersion(i, CallAt(j).req.rq.id)
        /\ ReadsVersion(k, CallAt(j).req.rq.id))
       => CallAt(k).res.rows[1].version >= CallAt(i).res.rows[1].version

\* A client has read version 2 of a.x; another handler has deleted the field; the
\* client has set it, which succeeded, and has read version 1.
C18_VersionRestarted ==
    /\ Len(hist) = 5
    /\ InARow(2, 4)
    /\ InARow(4, 5)
    /\ ReadsVersion(2, idAX)
    /\ CallAt(2).res.rows[1].version = 2
    /\ CallAt(3).call = "Delete"
    /\ hist[3].client # hist[2].client
    /\ CallAt(4).call = "Set"
    /\ Succeeded(4)
    /\ ReadsVersion(5, idAX)
    /\ CallAt(5).res.rows[1].version = 1


\* The n entries appended last, the last one first.
LastAppended(n) ==
    LET m == IF n < Len(audit) THEN n ELSE Len(audit)
    IN  [i \in 1..m |-> audit[Len(audit) + 1 - i]]

\* C19: the timestamps assigned at insertion order the audit log totally, an entry
\* appended later having the greater timestamp; GetAuditLog returns the entries newest
\* first, and with limit n the n entries appended last; so does the audit route.
C19_TimestampsOrderLog ==
    /\ \A i, j \in DOMAIN audit : i < j => audit[i].created_at < audit[j].created_at
    /\ \A n \in 1..(MaxLog + 1) : GetAuditLog(audit, n) = LastAppended(n)
    /\ (resp.call = "GET /vault/audit" /\ resp.constraint = "ok")
          => resp.res.entries = LastAppended(AuditLimit(resp.req.rq.limit))

\* The last two entries of the log were written within one second and carry the same
\* timestamp; the audit route, asked for one entry, has returned the one appended last.
C19_SameSecondEntries ==
    /\ Len(audit) >= 2
    /\ audit[Len(audit)].created_at = audit[Len(audit) - 1].created_at
    /\ audit[Len(audit)] # audit[Len(audit) - 1]
    /\ resp.call = "GET /vault/audit"
    /\ resp.constraint = "ok"
    /\ resp.req.rq.limit = 1
    /\ resp.res.entries = <<audit[Len(audit)]>>


\* The response r answers a successful direct call of a core method that changes the
\* vault or decrypts: the calls the claim lists.
MutatesOrDecrypts(r) ==
    /\ r.req.auth = "direct"
    /\ r.constraint = ErrNone
    /\ \/ r.call \in {"Unlock", "Set", "GetByCategory", "GetContext", "Delete",
                      "SetSensitivity", "CreateServiceToken"}
       \/ r.call = "Lock" /\ vsession # 0
       \/ r.call = "Get" /\ r.res.rows # <<>>
       \/ r.call = "RevokeServiceToken" /\ r.res.n > 0

\* C20: every successful call of Unlock, Lock, Set, Get of an existing field,
\* GetByCategory, GetContext, Delete, SetSensitivity, CreateServiceToken, and of a
\* RevokeServiceToken that removed a token, appends at least one entry to the audit log.
C20_EveryCallAudited ==
    [][(resp' # NoResp /\ resp' # resp /\ MutatesOrDecrypts(resp'))
       => /\ Len(audit') > Len(audit)
          /\ SubSeq(audit', 1, Len(audit)) = audit]_vars

\* SetSensitivity has made the stored field a.x critical and returned no error; the
\* audit log holds the entry of the unlock and nothing else.
C20_SensitivityChangedUnlogged ==
    /\ resp.call = "SetSensitivity"
    /\ resp.constraint = ErrNone
    /\ resp.req.rq.id = idAX
    /\ resp.req.rq.tier = "critical"
    /\ idAX \in DOMAIN fields
    /\ fields[idAX].sensitivity = "critical"
    /\ Len(audit) = 1
    /\ audit[1].action = "unlock"


\* The vault's session is live: the vault refers to it and it holds its key.
SessionLive == vsession # 0 /\ sess[vsession].hasKey

\* The bearer strings tried against the session: the token of every session, a service
\* token, another string, and the empty string.
BearersTried == Bearers \cup {EmptyToken}

HexChars == {"0", "1", "2", "3", "4", "5", "6", "7", "8", "9", "a", "b", "c", "d", "e", "f"}

\* C21: while the vault's session is live exactly one bearer string validates as a
\* session token, the token returned by the Unlock that created the session, which is
\* 64 hexadecimal characters; the tokens of earlier sessions, other strings, the empty
\* string and service tokens never validate, and nothing validates without a live session.
C21_OneSessionToken ==
    /\ \A b \in BearersTried :
          ValidateToken(St, b) <=> (SessionLive /\ b = SessionToken(vsession))
    /\ (resp.call = "Unlock" /\ resp.constraint = ErrNone)
          => /\ resp.res.token = SessionToken(nsess)
             /\ Len(SessionTokenText(nsess)) = 64
             /\ \A i \in 1..64 : SessionTokenText(nsess)[i] \in HexChars
             /\ \A m \in 1..(nsess - 1) : SessionTokenText(m) # SessionTokenText(nsess)

\* The second session is live and its token validates; the token of the first session,
\* which was locked, does not.
C21_SecondSessionLive ==
    /\ nsess = 2
    /\ vsession = 2
    /\ SessionLive
    /\ ValidateToken(St, SessionToken(2))
    /\ ~ValidateToken(St, SessionToken(1))
    /\ resp.call = "Unlock"
    /\ resp.res.token = SessionToken(2)


\* What an observer of an unlock request sees of its answer, and the state it leaves.
Observed(r) == <<r.status, r.constraint, r.message, r.token, r.st, r.attempts>>

\* The secret key of the body has the stored hash.
HashMatches(body) ==
    meta.secret_key_hash = HashSecretKeyHex(HexDecodeString(TrimSpace(body.secret_key)).bytes)

\* C22: in every state an unlock attempt that fails on the secret-key hash and one that
\* fails on the verification of the master key get the same status, constraint,
\* message and (no) token, and leave the same vault and limiter state; on a locked
\* vault, within the limit, that answer is 401 unauthenticated.
C22_WrongPasswordOneAnswer ==
    LET k == handleUnlock(St, unlockLimit, WrongSecretKeyBody)
        p == handleUnlock(St, unlockLimit, WrongPasswordBody)
    IN  /\ ~HashMatches(WrongSecretKeyBody)
        /\ HashMatches(WrongPasswordBody)
        /\ Observed(k) = Observed(p)
        /\ k.st = St
        /\ (vsession = 0 /\ allow(unlockLimit, now).ok)
              => /\ k.status = 401
                 /\ k.constraint = "unauthenticated"
                 /\ k.message = "wrong password or secret key"
                 /\ k.core /\ p.core

\* An attempt with a wrong secret key and one with a wrong password were both answered
\* unauthenticated on the locked vault.
C22_BothCausesRefused ==
    /\ Len(hist) = 2
    /\ hist[1].body = WrongSecretKeyBody
    /\ hist[2].body = WrongPasswordBody
    /\ hist[1].constraint = "unauthenticated"
    /\ hist[2].constraint = "unauthenticated"
    /\ vsession = 0
    /\ audit = <<>>



\* The rows a read touches: the row of a Get, the rows of the category of a
\* GetByCategory, every row for GetContext.
ReadOps == {"Get", "GetByCategory", "GetContext"}

RowsRead(op, rq) ==
    CASE op = "Get" -> {f \in Rows(fields) : f.id = rq.id}
      [] op = "GetByCategory" -> {f \in Rows(fields) : f.category = rq.category}
      [] OTHER -> Rows(fields)

\* The row does not open under the subkey of its category in the unlocked vault.
Damaged(f) ==
    f.value.sealedWith #
        DeriveSubkey(DeriveVaultKey(InitPassword, InitSecretKey, InitSalt), InitSalt, f.category)

\* C23: a read (Get, GetByCategory, GetContext, directly or over HTTP) of the
\* unlocked vault that touches a row which does not open under the key of its
\* category fails as a whole: a caller of the core gets the decrypt error, a
\* client the constraint internal, never a row or a bundle, never the constraint
\* of a missing authentication, a scope or a locked vault; nothing is written,
\* and the session stays the vault's session with its key and its token.
C23_DecryptFailureIsInternal ==
    [][(/\ resp = NoResp /\ resp' # NoResp /\ resp'.core
        /\ RouteOp(resp'.call) \in ReadOps
        /\ vsession # 0 /\ sess[vsession].hasKey
        /\ \E f \in RowsRead(RouteOp(resp'.call), resp'.req.rq) : Damaged(f))
       => /\ resp'.res.err = ErrDecrypt
          /\ resp'.constraint = (IF resp'.call \in Routes THEN "internal" ELSE ErrDecrypt)
          /\ resp'.res.rows = <<>> /\ resp'.res.bundle = NoBundle
          /\ vsession' = vsession
          /\ sess'[vsession].hasKey /\ sess'[vsession].token = sess[vsession].token
          /\ fields' = fields
          /\ \A e \in Appended : e.action = "api_access"]_vars

\* A client read a.x, whose row is damaged, and was answered internal.
C23_DamagedRowRead ==
    /\ resp.call = "GET /vault/fields/{id}" /\ resp.core
    /\ resp.constraint = "internal"
    /\ resp.req.rq.id = idAX /\ Damaged(fields[idAX])
    /\ vsession # 0 /\ sess[vsession].hasKey


\* C24: the process locks the vault before it closes the listener, and once the
\* shutdown sequence (v.Lock, srv.Stop, the deferred v.Close) has finished the vault
\* has no session and no session holds a master key, whatever unlock requests and
\* reads were served while it was shutting down.
C24_NothingLeftAfterShutdown ==
    /\ (~Listening => hist[1] = "Lock")
    /\ ShutdownFinished =>
          /\ vsession = 0
          /\ \A s \in Sessions : ~sess[s].hasKey /\ sess[s].buf \in {Zero, NilKey}

\* The shutdown sequence has finished, a client was given a session token while it
\* ran, and the session of that token still holds the master key.
C24_SessionOutlivesShutdown ==
    /\ ShutdownFinished
    /\ vsession = 0
    /\ nsess = 2
    /\ sess[2].hasKey
    /\ sess[2].buf = DeriveVaultKey(InitPassword, InitSecretKey, InitSalt)
    /\ ~sess[1].hasKey


\* C25: Init on a directory whose vault.db exists fails with ErrAlreadyInit and
\* leaves the database and secret.key as they are; at most one Init ever succeeds,
\* and the password and the secret key of that Init unlock the locked vault in every
\* later state, secret.key still holding that key.
C25_InitRefusedOnExistingVault ==
    /\ [][(resp = NoResp /\ resp'.call = "Init" /\ dir.db)
             => /\ resp'.constraint = ErrAlreadyInit
                /\ UNCHANGED <<meta, dir, fields, tokens, audit, vsession, sess, hist>>]_vars
    /\ [](/\ Len(hist) <= 1
          /\ Len(hist) = 1 =>
                /\ dir.secretKey = hist[1].secretKey \o <<"\n">>
                /\ meta.salt # <<>>
                /\ Unlock([St EXCEPT !.vsession = 0], hist[1].password, dir.secretKey).err
                      = ErrNone)

\* A second Init, with another password, was refused on the initialized directory.
C25_SecondInitRefused ==
    /\ resp.call = "Init"
    /\ resp.constraint = ErrAlreadyInit
    /\ Len(hist) = 1
    /\ resp.req.password # hist[1].password


\* The row of vault_tokens a listed entry stands for, by the hash it is shown under.
ListedRow(info) == tokens[info.token_prefix.prefix8]

\* C26: every token that GET /vault/tokens/service returns is one that would
\* authenticate now: its row is in vault_tokens and has not expired, so the store
\* finds it for the middleware.
C26_ListedTokensAuthenticate ==
    (resp.call = "GET /vault/tokens/service" /\ resp.constraint = "ok")
       => \A info \in resp.res.tokens :
             /\ info.token_prefix.prefix8 \in DOMAIN tokens
             /\ GetToken(tokens, info.token_prefix.prefix8, now).found
             /\ ~After(now, ParseRFC3339(info.expires_at))

\* The list shows a token whose expiry has passed: a request bearing it is refused.
C26_ExpiredTokenListed ==
    /\ resp.call = "GET /vault/tokens/service" /\ resp.constraint = "ok"
    /\ \E info \in resp.res.tokens :
          /\ ListedRow(info).usage = "service"
          /\ After(now, ParseRFC3339(info.expires_at))
          /\ \E n \in 1..MaxTokens :
                /\ hashServiceToken(ServiceToken(n)) = info.token_prefix.prefix8
                /\ ~ValidateServiceToken(St, ServiceToken(n)).found


\* C27: DELETE /vault/tokens/service/{prefix} by the session, with a prefix that
\* identifies a stored service token (the first characters of the token, or the
\* truncated hash the token list shows), removes that token: the request is answered
\* ok and the token authenticates no more.
C27_RevokeByPrefix ==
    [][\A n \in 1..MaxTokens :
          (/\ resp = NoResp /\ resp'.call = "DELETE /vault/tokens/service/{token}"
           /\ resp'.core /\ vsession # 0 /\ sess[vsession].hasKey
           /\ resp'.req.rq.token \in {TokenPrefix(n), ListedPrefix(n)}
           /\ hashServiceToken(ServiceToken(n)) \in DOMAIN tokens)
          => /\ resp'.constraint = "ok"
             /\ hashServiceToken(ServiceToken(n)) \notin DOMAIN tokens'
             /\ ~ValidateServiceToken(St', ServiceToken(n)).found]_vars

\* The prefix the list shows was sent to revoke a token; the answer was not_found and
\* the token still authenticates.
C27_PrefixRevokesNothing ==
    /\ resp.call = "DELETE /vault/tokens/service/{token}"
    /\ resp.req.rq.token = ListedPrefix(1)
    /\ resp.constraint = "not_found"
    /\ ValidateServiceToken(St, ServiceToken(1)).found


\* C28: the empty scope matches nothing: ScopeAllows("", fieldID) and
\* ScopeAllowsCategory("", category) are false for every string passed as identifier
\* or as category, the empty string included.
C28_EmptyScopeMatchesNothing ==
    \A i \in 1..Len(hist) : hist[i].scope = <<>> => ~hist[i].allowed

\* ScopeAllows was called with the empty scope and the empty identifier, and allowed it.
C28_EmptyScopeAllowsEmptyId ==
    /\ hist # <<>>
    /\ hist[1].call = "ScopeAllows" /\ hist[1].scope = <<>> /\ hist[1].arg = <<>>
    /\ hist[1].allowed


\* Some session created by an earlier Unlock still holds the master key.
KeyHeld == \E s \in Sessions : sess[s].hasKey

\* C29: of the Unlock calls with the right credentials that contend for a locked
\* vault exactly one creates the session: an Unlock that finds no session holding
\* the key and no session reference returns a token, creates one session and writes
\* one unlock entry; an Unlock that runs while the session of an earlier one holds
\* the key returns ErrAlreadyUnlocked, creates no session and writes no entry.
C29_OneUnlockWins ==
    [][(/\ resp = NoResp /\ resp'.call = "Unlock"
        /\ resp'.req.password = InitPassword /\ resp'.req.secretKeyHex = InitSecretKeyHex)
       => /\ KeyHeld =>
                /\ resp'.constraint = ErrAlreadyUnlocked
                /\ resp'.res.token = EmptyToken
                /\ nsess' = nsess /\ audit' = audit /\ sess' = sess
          /\ (~KeyHeld /\ vsession = 0) =>
                /\ resp'.constraint = ErrNone
                /\ resp'.res.token = SessionToken(nsess')
                /\ nsess' = nsess + 1 /\ vsession' = nsess' /\ sess'[nsess'].hasKey
                /\ Len(audit') = Len(audit) + 1
                /\ audit'[Len(audit')].action = "unlock"]_vars

\* Two sessions hold the master key: two Unlock calls have each created one.
C29_TwoUnlocksWon ==
    /\ resp.call = "Unlock" /\ resp.constraint = ErrNone
    /\ \E s, t \in Sessions : s # t /\ sess[s].hasKey /\ sess[t].hasKey


\* C30: the timer and the lock callback of a session end that session only: a step
\* that clears the vault's reference to a session holding the key ends that session
\* (its key is zeroed in the same step).  Hence no session holds the key while the
\* vault has no session, and no two sessions hold the key.
C30_CallbackEndsOwnSession ==
    /\ [][(vsession # 0 /\ sess[vsession].hasKey /\ vsession' # vsession)
             => ~sess'[vsession].hasKey]_vars
    /\ [](/\ vsession = 0 => ~KeyHeld
          /\ \A s, t \in Sessions : (sess[s].hasKey /\ sess[t].hasKey) => s = t)

\* The vault has no session, and the session that replaced the first one holds the
\* key: the callback of the first session has cleared the reference to it.
C30_ReplacementOrphaned ==
    /\ resp = NoResp
    /\ vsession = 0
    /\ nsess = 2
    /\ sess[1].created /\ ~sess[1].hasKey
    /\ sess[2].hasKey /\ sess[2].token = SessionToken(2)


\* The lock callback of session s runs (lockFn, from v.mu.Lock() to v.mu.Unlock()).
CallbackRuns(s) ==
    sess'[s].locking + sess'[s].waiting < sess[s].locking + sess[s].waiting

\* The runtime timer of session s fires: it starts an autoLock goroutine.
TimerFires(s) == sess'[s].firing > sess[s].firing

\* C31: the lock callback of a session runs at most once and only as part of the
\* idle expiry that ends the session: when it runs, the session is still the one
\* the vault refers to (it was not destroyed by Lock, and its callback has not run
\* before); and the timer of a session fires only while the session holds its key,
\* so never a second time and never after Destroy.
C31_CallbackOnceOnExpiry ==
    [][\A s \in Sessions :
          /\ CallbackRuns(s) => vsession = s
          /\ TimerFires(s) => sess[s].hasKey]_vars

\* Lock has destroyed session 1 while its autoLock goroutine was already started:
\* the goroutine has gone through its critical section and is about to run lockFn.
C31_CallbackPendingAfterDestroy ==
    /\ resp = NoResp
    /\ vsession = 0
    /\ sess[1].created /\ ~sess[1].timer /\ ~sess[1].armed
    /\ sess[1].locking > 0
    /\ Len(audit) = 2 /\ audit[2].action = "lock"


\* C32: whichever way Unlock returns after it has derived the master key, the
\* buffer of the locally derived key holds zeros; after a successful Unlock the
\* session's buffer is the only one that holds the key.
C32_UnlockZeroesLocalKey ==
    resp.call = "Unlock"
       => /\ resp.res.local \in {NilKey, Zero}
          /\ resp.constraint = ErrNone
                => /\ resp.res.local = Zero
                   /\ sess[vsession].buf =
                         DeriveVaultKey(InitPassword, InitSecretKey, InitSalt)

\* Unlock was refused for a wrong password and has left the key it derived from that
\* password in its buffer.
C32_DerivedKeyLeft ==
    /\ resp.call = "Unlock"
    /\ resp.constraint = ErrWrongPassword
    /\ resp.req.password = <<112>>
    /\ resp.res.local = DeriveVaultKey(<<112>>, InitSecretKey, InitSalt)


\* A pattern of the documented grammar: "*", "category.*" or "category.field_name".
WellFormedPattern(p) ==
    \/ p = <<"*">>
    \/ /\ HasSuffix(p, <<".", "*">>)
       /\ ValidCategoryName(TrimSuffix(p, <<".", "*">>))
    \/ ValidateFieldID(p)

WellFormedScope(scope) ==
    LET ps == Split(scope, ",")
    IN  \A i \in 1..Len(ps) : WellFormedPattern(TrimSpace(ps[i]))

\* C33: the two scope evaluators agree.  Whenever ScopeAllows admits some valid field
\* id of a category, ScopeAllowsCategory admits the category; and for a scope made of
\* well-formed patterns, a category that ScopeAllowsCategory admits has a valid field
\* id that ScopeAllows admits.
C33_EvaluatorsAgree ==
    \A i \in 1..Len(hist) :
       hist[i].call = "handleGetByCategory"
          => /\ hist[i].kept # {} => hist[i].allowed
             /\ WellFormedScope(hist[i].scope) /\ hist[i].allowed => hist[i].kept # {}

\* The category "a" was admitted through an exact-field pattern, next to a category
\* pattern of another category, and the filter kept exactly the named field.
C33_CategoryAdmittedByExactField ==
    /\ Len(hist) = 1
    /\ hist[1].call = "handleGetByCategory"
    /\ hist[1].scope = <<" ", "a", "a", ".", "*", " ", ",", "a", ".", "a", "a">>
    /\ hist[1].arg = <<"a">>
    /\ hist[1].allowed
    /\ hist[1].kept = {<<"a", ".", "a", "a">>}


\* The documented grammar, for one trimmed pattern and a valid id: "*", the id's own
\* category followed by ".*", or the id itself.
GrammarAllows(p, fieldID) ==
    \/ p = <<"*">>
    \/ p = Category(fieldID) \o <<".", "*">>
    \/ p = fieldID

\* C34: for every scope string and every valid field id, ScopeAllows is true exactly
\* when some comma-separated pattern of the scope, trimmed of surrounding whitespace,
\* is "*", or the id's category followed by ".*", or the id itself; a category pattern
\* does not match a field of another category that shares a prefix with it.
C34_ScopeAllowsIsTheGrammar ==
    \A i \in 1..Len(hist) :
       hist[i].call = "ScopeAllows" /\ ValidateFieldID(hist[i].arg)
          => LET ps == Split(hist[i].scope, ",")
             IN  hist[i].allowed
                    <=> \E k \in 1..Len(ps) : GrammarAllows(TrimSpace(ps[k]), hist[i].arg)

\* ScopeAllows was asked about a field of category "aa" under the scope "a.*", whose
\* category is a prefix of "aa", and refused it.
C34_PrefixCategoryRefused ==
    /\ Len(hist) = 1
    /\ hist[1].call = "ScopeAllows"
    /\ hist[1].scope = <<"a", ".", "*">>
    /\ hist[1].arg = <<"a", "a", ".", "a">>
    /\ ~hist[1].allowed


\* A request to a protected route has just been answered.
RouteAnswered == resp = NoResp /\ resp' # NoResp /\ resp'.req.auth # "direct"

\* C35: a request to a protected route whose Authorization header is missing, does not
\* start with "Bearer ", or carries a value that is neither the token of the live
\* session nor a valid service token is answered unauthenticated by the middleware, and
\* nothing else happens: no handler runs, the idle timer and the rest of the sessions
\* are as before, no audit entry is written, the store is unchanged.
C35_UnauthenticatedHasNoEffect ==
    [][RouteAnswered
          /\ \/ resp'.req.scheme # BearerScheme
             \/ /\ ~ValidateToken(St, resp'.req.bearer)
                /\ ~ValidateServiceToken(St, resp'.req.bearer).found
          => /\ resp'.constraint = "unauthenticated"
             /\ resp'.call = "/"
             /\ ~resp'.core
             /\ UNCHANGED <<vsession, vsalt, sess, nsess, meta, dir, fields, tokens, nsvc,
                            audit, now>>]_vars

\* The token of the live session was sent without the "Bearer " prefix while the idle
\* timer had run down by one tick: the answer was unauthenticated and the timer still
\* has one tick left.
C35_BareSessionTokenRefused ==
    /\ resp.constraint = "unauthenticated"
    /\ resp.req.scheme = ""
    /\ resp.req.bearer = SessionToken(1)
    /\ vsession = 1
    /\ sess[1].token = SessionToken(1)
    /\ sess[1].armed /\ sess[1].remaining = 1


\* A Set, direct or through PUT /vault/fields/{id}, has just returned an error.
SetFailed ==
    /\ resp = NoResp
    /\ resp' # NoResp
    /\ resp'.call \in {"Set", "PUT /vault/fields/{id}"}
    /\ resp'.constraint \notin {"ok", ErrNone}

\* C36: a Set that fails (invalid identifier, vault locked, a tier outside the four)
\* leaves the store as it was: no row is created, every existing row keeps its value,
\* sensitivity and version, and no write entry is appended to the audit log.
C36_FailedSetChangesNothing ==
    [][SetFailed
          => /\ fields' = fields
             /\ Len(audit') >= Len(audit)
             /\ SubSeq(audit', 1, Len(audit)) = audit
             /\ \A e \in Appended : e.action # "write"]_vars

\* Set was called on the unlocked vault for a stored field with a new value and a tier
\* that does not exist: it returned ErrInvalidTier and the row is the one stored before.
C36_InvalidTierLeftRow ==
    /\ resp.call = "Set"
    /\ resp.res.err = ErrInvalidTier
    /\ resp.req.rq.id = idAX
    /\ resp.req.rq.value = "v2"
    /\ vsession # 0
    /\ HasField(fields, idAX)
    /\ fields[idAX] = Sealed(idAX, "v1", "standard", 1)


\* C37: the sensitivity tier of a stored field changes only in a call that names the
\* field and supplies a tier (Set or PUT /vault/fields/{id} with a non-empty
\* sensitivity, SetSensitivity or PUT /vault/sensitivity/{id}); a Set of a new value
\* with no tier leaves the tier the field had.
C37_TierChangesOnlyWhenSupplied ==
    [][\A id \in DOMAIN fields \cap DOMAIN fields' :
          fields'[id].sensitivity # fields[id].sensitivity
             => /\ resp' # NoResp
                /\ resp'.call \in {"Set", "PUT /vault/fields/{id}", "SetSensitivity",
                                   "PUT /vault/sensitivity/{id}"}
                /\ resp'.req.rq.id = id
                /\ resp'.req.rq.tier # ""]_vars

\* Set was called with a new value and no tier for the field b.x, stored as critical:
\* it succeeded, and the field is now standard.
C37_TierResetByPlainSet ==
    /\ resp.call = "Set"
    /\ resp.req.rq.id = idBX
    /\ resp.req.rq.tier = ""
    /\ resp.res.err = ErrNone
    /\ HasField(fields, idBX)
    /\ fields[idBX].version = 2
    /\ fields[idBX].sensitivity = "standard"


\* The request of a response names a field, or a category, that its scope does not allow.
ScopeDoesNotAllow(r) ==
    \/ /\ r.call \in {"GET /vault/fields/{id}", "PUT /vault/fields/{id}",
                      "DELETE /vault/fields/{id}", "PUT /vault/sensitivity/{id}"}
       /\ ValidateFieldID(r.req.rq.id)
       /\ ~ScopeAllows(r.req.scope, r.req.rq.id)
    \/ /\ r.call = "GET /vault/fields/category/{category}"
       /\ ValidCategoryName(r.req.rq.category)
       /\ ~ScopeAllowsCategory(r.req.scope, r.req.rq.category)

\* C38: for a service token whose scope does not allow the field (or the category) of
\* the request, the answer of GET, PUT and DELETE /vault/fields/{id}, of
\* PUT /vault/sensitivity/{id} and of GET /vault/fields/category/{c} is one and the same
\* scope_exceeded response, produced without calling the core, whatever the store
\* holds and whether the vault is locked or not; the store is left as it was.
C38_ScopeExceededRevealsNothing ==
    [][resp = NoResp /\ resp' # NoResp /\ resp'.req.auth = "service" /\ ScopeDoesNotAllow(resp')
          => /\ resp'.constraint = "scope_exceeded"
             /\ resp'.res = Result(ErrNone)
             /\ ~resp'.core
             /\ fields' = fields
             /\ tokens' = tokens]_vars

\* A service token of scope a.* asked to delete b.x on the locked vault, which stores
\* b.x: the answer is scope_exceeded and b.x is still there.
C38_DeniedOnLockedVault ==
    /\ resp.call = "DELETE /vault/fields/{id}"
    /\ resp.req.auth = "service"
    /\ resp.req.scope = <<"a", ".", "*">>
    /\ resp.req.rq.id = idBX
    /\ resp.constraint = "scope_exceeded"
    /\ vsession = 0
    /\ HasField(fields, idBX)


\* A request with "Bearer " and a service token whose row is stored and has not expired
\* has just been answered.
ServiceTokenAnswered ==
    /\ resp = NoResp
    /\ resp' # NoResp
    /\ resp'.req.scheme = BearerScheme
    /\ LET t == GetToken(tokens, hashServiceToken(resp'.req.bearer), now)
       IN  t.found /\ t.row.usage = "service"

\* C39: a service token that is stored and has not expired authenticates, and an
\* api_access entry is written, whether the vault is locked or not and whatever
\* sessions came and went since it was issued; while the vault is locked a field
\* operation it reaches answers vault_locked and returns no field data, and the request
\* leaves the vault locked.
C39_ServiceTokenIndependentOfSession ==
    [][ServiceTokenAnswered
          => /\ resp'.call # "/"
             /\ resp'.req.auth = "service"
             /\ Len(audit') > Len(audit)
             /\ audit'[Len(audit) + 1].action = "api_access"
             /\ vsession = 0
                   => /\ vsession' = 0
                      /\ sess' = sess
                      /\ fields' = fields
                      /\ resp'.res.rows = <<>>
                      /\ resp'.res.bundle = NoBundle
                      /\ resp'.core => resp'.constraint = "vault_locked"]_vars

\* A service token issued in the first session read a field after that session and a
\* second one had ended: it authenticated, api_access was logged, the answer was
\* vault_locked.
C39_TokenOutlivesTwoSessions ==
    /\ resp.call = "GET /vault/fields/{id}"
    /\ resp.req.auth = "service"
    /\ resp.req.bearer = ServiceToken(1)
    /\ resp.constraint = "vault_locked"
    /\ nsess = 2
    /\ vsession = 0
    /\ audit[Len(audit)].action = "api_access"


\* The requests before request i that the limiter let through.
AcceptedBefore(i) == {j \in 1..(i - 1) : hist[j].constraint # "rate_limited"}

\* Those of them that are among the five most recent.
FiveMostRecent(i) ==
    {j \in AcceptedBefore(i) :
        Cardinality({k \in AcceptedBefore(i) : k >= j}) <= unlockLimitMax}

\* C40: the limiter does not record the attempts it refuses.  An attempt made more than
\* a window after the fifth most recent attempt that was let through (or when fewer
\* than five were ever let through) is let through, however many refused attempts came
\* in between: a lock-out ends a window after the oldest attempt that counts.
C40_RefusedAttemptsNotCounted ==
    \A i \in 1..Len(hist) :
       \/ Cardinality(AcceptedBefore(i)) < unlockLimitMax
       \/ \E j \in FiveMostRecent(i) : hist[i].at > hist[j].at + UnlockWindow
       => hist[i].constraint # "rate_limited"

\* Five attempts at time 0, a sixth refused at once, a seventh refused a tick later,
\* and an eighth at tick 3, more than a window after the first five, that is let through.
C40_AcceptedAfterRefusals ==
    /\ Len(hist) = 8
    /\ \A i \in 1..5 : hist[i].at = 0 /\ hist[i].constraint = "unauthenticated"
    /\ hist[6].at = 0 /\ hist[6].constraint = "rate_limited"
    /\ hist[7].at = 1 /\ hist[7].constraint = "rate_limited"
    /\ hist[8].at = 3 /\ hist[8].constraint = "unauthenticated"

====
